---- MODULE Spec2Model ----
(***************************************************************************)
(* Account lifecycle of the e-commerce backend: registration with an       *)
(* e-mailed OTP, OTP re-issue, activation, login and logout, for the two   *)
(* account variants (end-user: controller/user.js + model/user.js; shop:   *)
(* controller/shop.js + the shop schema).                                  *)
(*                                                                         *)
(* Every handler is an async function.  A handler is cut at the awaits     *)
(* that touch the credential store or the mail transport, so that the      *)
(* requests of different clients interleave exactly where Node lets them.  *)
(* Time is Date.now() in milliseconds.                                     *)
(***************************************************************************)
EXTENDS Integers, Sequences, FiniteSets, TLC

VARIABLES
    site,    \* the variant whose endpoints this run's clients call
    now,     \* Date.now(), in ms
    db,      \* db[v]: the documents of variant v's collection
    nextId,  \* the next ObjectId the store hands out
    reqs,    \* reqs[s]: the request in flight in slot s, or Idle
    resp,    \* the response sent by the latest step, or NoResp
    mail,    \* the mail the latest step handed to the transport, or NoMail
    issued,  \* the tokens that went out in responses (kept by the clients)
    inbox,   \* the OTP of the latest mail that reached the account's owner
    products, \* the documents of the products collection
    orders   \* the documents of the orders collection

vars == <<site, now, db, nextId, reqs, resp, mail, issued, inbox, products, orders>>

----------------------------------------------------------------------------
(* Bounds of the model *)

MaxPeriods  == 1    \* the clock runs over MaxPeriods OTP lifetimes
MaxAccounts == 2    \* ObjectIds the store hands out
MaxInFlight == 1    \* requests in flight at once
MaxRacers   == 2    \* Register requests in flight at once, in SpecRace
JwtExpires  == 900  \* process.env.JWT_EXPIRES, in seconds

----------------------------------------------------------------------------
(* Values *)

Variants == {"user", "shop"}
Slots    == DOMAIN reqs

\* undefined / null / "" : an absent string, number or token
Undef == <<>>

\* a JS number held in an optional field
Num(n) == <<n>>

\* 10 * 60 * 1000 ms
OtpTtl == 10 * 60 * 1000

\* the instants at which something happens: the start and the first
\* millisecond of every OTP lifetime
Instants == { k * OtpTtl + j : k \in 0..MaxPeriods, j \in 0..1 }

\* request bodies
RawEmails == {"a@x.io", "A@x.io"}
Passwords == {<<"secret1">>, <<"hunter22">>}
RoleInputs == {Undef, <<"user">>, <<"seller">>, <<"instructor">>,
               <<"serviceProvider">>, <<"admin">>}
RegisterPasswords == {<<"secret1">>}

\* schema option lowercase: true, applied to stored values and to filters
toLowerCase(e) == IF e = "A@x.io" THEN "a@x.io" ELSE e

\* Math.random() in millionths: u = k / 10^6, 0 <= u < 1
MathRandom == {0, 999999}

RECURSIVE toString(_)
\* Number.prototype.toString: the decimal digits of n >= 0
toString(n) == IF n < 10 THEN <<n>> ELSE Append(toString(n \div 10), n % 10)

\* Math.floor(100000 + Math.random() * 900000).toString()
genOtp(k) == toString(100000 + (k * 9) \div 10)

\* the expiry counted in seconds
otpExpiryAtSeconds(t) == t + 10 * 60

\* Date.now() + 10 * 60 * 1000
otpExpiryAt(t) == t + OtpTtl

\* bcrypt.hash(p, 10); the salt is left out, compare is what matters
bcryptHash(p) == <<"$2a$10$">> \o p

\* a comparison of the plaintexts
comparePlain(entered, stored) == entered # Undef /\ stored = entered

\* bcrypt.compare(entered, stored)
bcryptCompare(entered, stored) == entered # Undef /\ stored = bcryptHash(entered)

----------------------------------------------------------------------------
(* Documents, requests, responses *)

\* no document (findOne / findById resolved to null)
NoDoc == [_id |-> 0]

EmailInputs    == {"a@x.io", ""}
OtpInputs      == {genOtp(k) : k \in MathRandom} \cup {Undef}
PasswordInputs == Passwords \cup {Undef}

NoToken  == Undef
NoCookie == [name |-> "", value |-> NoToken, expired |-> FALSE]
NoResp   == [op |-> "none", v |-> "", given |-> Undef, status |-> 0, message |-> "",
             token |-> NoToken, cookie |-> NoCookie]
NoMail   == [to |-> "", v |-> "", otp |-> Undef, ok |-> FALSE]

Idle == [op |-> "idle", v |-> "", pc |-> "", doc |-> NoDoc, modified |-> {}]

\* the response and the mail of the step before have gone out
Quiet == resp = NoResp /\ mail = NoMail

\* a new request is taken by the lowest idle slot
FreeSlot(s) == Quiet /\ reqs[s] = Idle /\ \A t \in Slots : t < s => reqs[t] # Idle

\* next(new ErrorHandler(message, status)); given is the OTP of the
\* activation request that is answered
ErrorHandler(op, v, given, message, status) ==
    [op |-> op, v |-> v, given |-> given, status |-> status, message |-> message,
     token |-> NoToken, cookie |-> NoCookie]

\* res.status(status).json({ success: true, message })
Success(op, v, status) ==
    [op |-> op, v |-> v, given |-> Undef, status |-> status, message |-> "",
     token |-> NoToken, cookie |-> NoCookie]

\* the messages of the two controllers
AlreadyExistsMsg(v) ==
    IF v = "user" THEN "User already exists" ELSE "Shop with this email already exists"
NotFoundMsg(v)        == IF v = "user" THEN "User not found" ELSE "Shop not found"
AlreadyVerifiedMsg(v) ==
    IF v = "user" THEN "User already verified" ELSE "Shop already verified"
LoginNotFoundMsg(v)   == IF v = "user" THEN "User doesn't exist!" ELSE "Shop doesn't exist!"
NotVerifiedMsg(v) ==
    IF v = "user" THEN "Please verify your account first!"
    ELSE "Please verify your shop account first!"

----------------------------------------------------------------------------
(* Token service *)

\* jwt.sign({ id }, JWT_SECRET_KEY, { expiresIn: JWT_EXPIRES }): iat and exp
\* are in seconds
getJwtToken(doc, t) == <<doc._id, t \div 1000, t \div 1000 + JwtExpires, "HS256">>

\* a verification that takes the newest token of an account only: a later
\* Login revokes the tokens before it
jwtVerifyNewest(token, t) ==
    IF /\ token # NoToken /\ token[4] = "HS256" /\ t \div 1000 < token[3]
       /\ \A other \in issued : other[1] = token[1] => other[2] <= token[2]
    THEN token[1] ELSE 0

\* jwt.verify(token, JWT_SECRET_KEY) at time t: the id, or 0 when it throws
jwtVerify(token, t) ==
    IF token # NoToken /\ token[4] = "HS256" /\ t \div 1000 < token[3]
    THEN token[1] ELSE 0

\* why jwt.verify throws: the signature is checked first, then exp; "" when
\* it returns the payload
jwtVerifyError(token, t) ==
    IF token[4] # "HS256" THEN "JsonWebTokenError"
    ELSE IF t \div 1000 >= token[3] THEN "TokenExpiredError"
    ELSE ""

\* the token with another signature
tampered(token) == [token EXCEPT ![4] = "forged"]

CookieName(v) == IF v = "user" THEN "token" ELSE "seller_token"

\* utils/jwtToken sendToken(user, status, res) and utils/shopToken
\* sendShopToken(shop, status, res, token): the token goes into the
\* response body and into the variant's session cookie
sendToken(op, v, given, doc, status, t) ==
    [op |-> op, v |-> v, given |-> given, status |-> status, message |-> "",
     token |-> getJwtToken(doc, t),
     cookie |-> [name |-> CookieName(v), value |-> getJwtToken(doc, t),
                 expired |-> FALSE]]

----------------------------------------------------------------------------
(* Credential store (mongoose over the two collections) *)

\* Model.findOne({ email }).select("+password")
findOneWithPassword(v, email) ==
    LET hits == { d \in db[v] : d.email = toLowerCase(email) }
    IN  IF hits = {} THEN NoDoc ELSE CHOOSE d \in hits : TRUE

\* Model.findOne({ email }): password has select: false
findOne(v, email) ==
    LET d == findOneWithPassword(v, email)
    IN  IF d = NoDoc THEN NoDoc ELSE [d EXCEPT !.password = Undef]

\* Model.findById(id).select("+password")
findByIdWithPassword(v, id) ==
    LET hits == { d \in db[v] : d._id = id }
    IN  IF hits = {} THEN NoDoc ELSE CHOOSE d \in hits : TRUE

\* Model.findById(id)
findById(v, id) ==
    LET d == findByIdWithPassword(v, id)
    IN  IF d = NoDoc THEN NoDoc ELSE [d EXCEPT !.password = Undef]

\* userSchema.pre("save")
userPreSave(doc, modified) ==
    IF "password" \notin modified THEN doc
    ELSE [doc EXCEPT !.password = bcryptHash(doc.password)]

\* shopSchema.pre("save"): with the password unmodified next() releases the
\* save at once; the hash that follows (no return) lands on the in-memory
\* document after the write was built, or rejects when the password was
\* not selected, and the rejection is dropped because next() was called
shopPreSave(doc, modified) ==
    IF "password" \notin modified THEN doc
    ELSE [doc EXCEPT !.password = bcryptHash(doc.password)]

\* a schema without the hook
preSaveNone(v, doc, modified) == doc

preSave(v, doc, modified) ==
    IF v = "user" THEN userPreSave(doc, modified) ELSE shopPreSave(doc, modified)

\* a collection without the index
noUniqueIndex(v, doc) == FALSE

\* email: { unique: true }: the index refuses a second document with the
\* same email (E11000)
uniqueEmailViolated(v, doc) == \E d \in db[v] : d.email = doc.email /\ d._id # doc._id

\* the document Model.create(fields) inserts: the lowercase setter, the
\* pre-save hook, a fresh _id
createdDoc(v, fields) ==
    LET set == [fields EXCEPT !._id = nextId, !.email = toLowerCase(fields.email)]
    IN  preSave(v, set, {"password"})

\* a save that writes the whole in-memory document back
savedWhole(v, stored, doc, modified) == preSave(v, doc, modified)

\* doc.save() of a loaded document: $set / $unset of the modified paths on
\* the stored document with that _id
savedDoc(v, stored, doc, modified) ==
    LET hooked == preSave(v, doc, modified)
    IN  [f \in DOMAIN stored |-> IF f \in modified THEN hooked[f] ELSE stored[f]]

saveInto(v, doc, modified) ==
    { IF d._id = doc._id THEN savedDoc(v, d, doc, modified) ELSE d : d \in db[v] }

----------------------------------------------------------------------------
(* Initial state: empty collections, no request in flight *)

Init ==
    /\ site \in Variants
    /\ now = 0
    /\ db = [v \in Variants |-> {}]
    /\ nextId = 1
    /\ reqs = [s \in 1..MaxInFlight |-> Idle]
    /\ resp = NoResp
    /\ mail = NoMail
    /\ issued = {}
    /\ inbox = Undef
    /\ products = {}
    /\ orders = {}

\* a step that answers the client and ends the request in slot s
Respond(s, r) ==
    /\ resp' = r
    /\ reqs' = [reqs EXCEPT ![s] = Idle]
    /\ UNCHANGED <<issued, inbox, products, orders>>

\* a step that leaves the request of slot s waiting at its next await
Await(s, r) ==
    /\ resp' = NoResp
    /\ reqs' = [reqs EXCEPT ![s] = r]
    /\ UNCHANGED <<issued, inbox, products, orders>>

\* the response and the mail of the latest step go out: resp and mail hold
\* what one step produced, and the step after starts without them
Flush ==
    /\ ~Quiet
    /\ resp' = NoResp
    /\ mail' = NoMail
    /\ UNCHANGED <<site, now, db, nextId, reqs, issued, inbox, products, orders>>

\* as Flush, and the client keeps the token the response carries, if any
Deliver ==
    /\ ~Quiet
    /\ resp' = NoResp
    /\ mail' = NoMail
    /\ issued' = IF resp.token = NoToken THEN issued ELSE issued \cup {resp.token}
    /\ UNCHANGED <<site, now, db, nextId, reqs, inbox, products, orders>>

\* as Flush, and the owner of the address reads the mail, if it arrived
Receive ==
    /\ ~Quiet
    /\ resp' = NoResp
    /\ mail' = NoMail
    /\ inbox' = IF mail.ok THEN mail.otp ELSE inbox
    /\ UNCHANGED <<site, now, db, nextId, reqs, issued, products, orders>>

\* time passes, to the next instant
Tick ==
    /\ Quiet
    /\ \E t \in Instants : /\ t > now
                            /\ \A u \in Instants : u > now => t <= u
                            /\ now' = t
    /\ UNCHANGED <<site, db, nextId, reqs, resp, mail, issued, inbox, products, orders>>

----------------------------------------------------------------------------
(* POST /create-user, POST /create-shop *)

\* the object the handler builds: user (controller/user.js) or shop
\* (controller/shop.js)
newAccount(v, email, password, role, k, t) ==
    [_id |-> 0, name |-> "n0", email |-> email, password |-> password,
     avatar |-> "a0", withdrawMethod |-> Undef,
     role |-> IF v = "shop" THEN "Seller" ELSE IF role = Undef THEN "user" ELSE role[1],
     isVerified |-> FALSE,
     verificationOtp |-> genOtp(k),
     verificationOtpExpiry |-> Num(otpExpiryAt(t))]

\* role: { enum: [...] } of the end-user schema
Roles == {"user", "seller", "instructor", "serviceProvider", "admin"}

\* a schema without the enum on role
noEnum(v, d) == FALSE

\* the validation of create() rejects a role outside the enum; the shop
\* schema has no enum on its role
enumViolated(v, d) == v = "user" /\ d.role \notin Roles

\* the store has an ObjectId left for every Register in flight and one more
IdsLeft == nextId + Cardinality({s \in Slots : reqs[s].op = "register"}) <= MaxAccounts

\* findOne, (end-user: the avatar upload,) then the OTP pair; avatarOk is
\* whether the media host takes the avatar
RegisterFind(s, v, email, password, role, avatarOk, k) ==
    /\ FreeSlot(s)
    /\ IdsLeft
    /\ mail' = NoMail
    /\ UNCHANGED <<site, now, db, nextId>>
    /\ IF findOne(v, email) # NoDoc
       THEN Respond(s, ErrorHandler("register", v, Undef, AlreadyExistsMsg(v), 400))
       ELSE IF v = "user" /\ ~avatarOk
       THEN Respond(s, ErrorHandler("register", v, Undef, "upload failed", 400))
       ELSE Await(s, [op |-> "register", v |-> v, pc |-> "mail",
                      doc |-> newAccount(v, email, password, role, k, now),
                      modified |-> {}])

\* a dispatch whose failure is swallowed
RegisterMailSwallowed(s, delivered) ==
    LET r == reqs[s] IN
    /\ Quiet /\ r.op = "register" /\ r.pc = "mail"
    /\ mail' = [to |-> r.doc.email, v |-> r.v, otp |-> r.doc.verificationOtp, ok |-> delivered]
    /\ UNCHANGED <<site, now, db, nextId>>
    /\ Await(s, [r EXCEPT !.pc = "create"])

\* await sendMail(...): delivered is the transport's answer
RegisterMail(s, delivered) ==
    LET r == reqs[s] IN
    /\ Quiet /\ r.op = "register" /\ r.pc = "mail"
    /\ mail' = [to |-> r.doc.email, v |-> r.v, otp |-> r.doc.verificationOtp, ok |-> delivered]
    /\ UNCHANGED <<site, now, db, nextId>>
    /\ IF delivered
       THEN Await(s, [r EXCEPT !.pc = "create"])
       ELSE Respond(s, ErrorHandler("register", r.v, Undef, "sendMail failed", 500))

\* await Model.create(...): validation, the pre-save hook, the insert under
\* the unique index; valid is whether the body meets the schema (the
\* express-validator chains of the route are never consulted)
RegisterCreate(s, valid) ==
    LET r == reqs[s]
        d == createdDoc(r.v, r.doc)
    IN
    /\ Quiet /\ r.op = "register" /\ r.pc = "create"
    /\ mail' = NoMail
    /\ UNCHANGED <<site, now>>
    /\ IF ~valid \/ enumViolated(r.v, d)
       THEN /\ UNCHANGED <<db, nextId>>
            /\ Respond(s, ErrorHandler("register", r.v, Undef, "validation failed", 500))
       ELSE IF uniqueEmailViolated(r.v, d)
       THEN /\ UNCHANGED <<db, nextId>>
            /\ Respond(s, ErrorHandler("register", r.v, Undef, "E11000 duplicate key", 500))
       ELSE /\ db' = [db EXCEPT ![r.v] = @ \cup {d}]
            /\ nextId' = nextId + 1
            /\ Respond(s, Success("register", r.v, 201))

----------------------------------------------------------------------------
(* POST /resend-otp *)

\* a re-issue that leaves the expiry as it was
reissueOtpOnly(doc, k, t) == [doc EXCEPT !.verificationOtp = genOtp(k)]

\* user.verificationOtp = otp; user.verificationOtpExpiry = otpExpiry
reissue(doc, k, t) ==
    [doc EXCEPT !.verificationOtp = genOtp(k),
                !.verificationOtpExpiry = Num(otpExpiryAt(t))]

\* findOne, the checks, the new OTP pair set on the loaded document
ResendFind(s, v, email, k) ==
    LET doc == findOne(v, email) IN
    /\ FreeSlot(s)
    /\ mail' = NoMail
    /\ UNCHANGED <<site, now, db, nextId>>
    /\ IF email = ""
       THEN Respond(s, ErrorHandler("resend", v, Undef, "Email is required", 400))
       ELSE IF doc = NoDoc
       THEN Respond(s, ErrorHandler("resend", v, Undef, NotFoundMsg(v), 400))
       ELSE IF doc.isVerified
       THEN Respond(s, ErrorHandler("resend", v, Undef, AlreadyVerifiedMsg(v), 400))
       ELSE Await(s, [op |-> "resend", v |-> v, pc |-> "save",
                      doc |-> reissue(doc, k, now),
                      modified |-> {"verificationOtp", "verificationOtpExpiry"}])

\* a handler that does not save before it mails
ResendNoSave(s) ==
    LET r == reqs[s] IN
    /\ Quiet /\ r.op = "resend" /\ r.pc = "save"
    /\ mail' = NoMail
    /\ UNCHANGED <<site, now, db, nextId>>
    /\ Await(s, [r EXCEPT !.pc = "mail"])

\* await user.save()
ResendSave(s) ==
    LET r == reqs[s] IN
    /\ Quiet /\ r.op = "resend" /\ r.pc = "save"
    /\ db' = [db EXCEPT ![r.v] = saveInto(r.v, r.doc, r.modified)]
    /\ mail' = NoMail
    /\ UNCHANGED <<site, now, nextId>>
    /\ Await(s, [r EXCEPT !.pc = "mail"])

\* await sendMail(...), then the answer
ResendMail(s, delivered) ==
    LET r == reqs[s] IN
    /\ Quiet /\ r.op = "resend" /\ r.pc = "mail"
    /\ mail' = [to |-> r.doc.email, v |-> r.v, otp |-> r.doc.verificationOtp, ok |-> delivered]
    /\ UNCHANGED <<site, now, db, nextId>>
    /\ IF delivered
       THEN Respond(s, Success("resend", r.v, 200))
       ELSE Respond(s, ErrorHandler("resend", r.v, Undef, "Failed to send OTP email", 500))

----------------------------------------------------------------------------
(* POST /activation *)

\* an expiry that is reached at the deadline itself
expiredAtDeadline(doc, t) ==
    doc.verificationOtpExpiry # Undef /\ doc.verificationOtpExpiry[1] <= t

\* user.verificationOtpExpiry < Date.now()
expired(doc, t) == doc.verificationOtpExpiry # Undef /\ doc.verificationOtpExpiry[1] < t

\* a condition that wants both
otpRejectedBoth(doc, otp, t) == doc.verificationOtp # otp /\ expired(doc, t)

\* a condition that forgets the expiry
otpRejectedNoExpiry(doc, otp, t) == doc.verificationOtp # otp

\* the condition of "Invalid or expired OTP"
otpRejected(doc, otp, t) == doc.verificationOtp # otp \/ expired(doc, t)

\* user.isVerified = true; user.verificationOtp = undefined;
\* user.verificationOtpExpiry = undefined
activate(doc) ==
    [doc EXCEPT !.isVerified = TRUE, !.verificationOtp = Undef,
                !.verificationOtpExpiry = Undef]

\* findOne, the checks, the three assignments on the loaded document
ActivateFind(s, v, email, otp) ==
    LET doc == findOne(v, email) IN
    /\ FreeSlot(s)
    /\ mail' = NoMail
    /\ UNCHANGED <<site, now, db, nextId>>
    /\ IF email = "" \/ otp = Undef
       THEN Respond(s, ErrorHandler("activate", v, otp, "Email and OTP are required", 400))
       ELSE IF doc = NoDoc
       THEN Respond(s, ErrorHandler("activate", v, otp, NotFoundMsg(v), 400))
       ELSE IF doc.isVerified
       THEN Respond(s, ErrorHandler("activate", v, otp, AlreadyVerifiedMsg(v), 400))
       ELSE IF otpRejected(doc, otp, now)
       THEN Respond(s, ErrorHandler("activate", v, otp, "Invalid or expired OTP", 400))
       ELSE Await(s, [op |-> "activate", v |-> v, pc |-> "save",
                      doc |-> activate(doc),
                      modified |-> {"isVerified", "verificationOtp",
                                    "verificationOtpExpiry"}])

\* await user.save(), then sendToken / sendShopToken
ActivateSave(s) ==
    LET r == reqs[s] IN
    /\ Quiet /\ r.op = "activate" /\ r.pc = "save"
    /\ db' = [db EXCEPT ![r.v] = saveInto(r.v, r.doc, r.modified)]
    /\ mail' = NoMail
    /\ UNCHANGED <<site, now, nextId>>
    /\ Respond(s, sendToken("activate", r.v, Undef, r.doc, 201, now))

----------------------------------------------------------------------------
(* POST /login-user, POST /login-shop: the handler reads the store once and
   writes nothing, so it is one step *)

\* a handler that compares the password before it looks at isVerified
LoginCompareFirst(v, email, password) ==
    LET doc == findOneWithPassword(v, email) IN
    IF email = "" \/ password = Undef
    THEN ErrorHandler("login", v, Undef, "Please provide all fields!", 400)
    ELSE IF doc = NoDoc
    THEN ErrorHandler("login", v, Undef, LoginNotFoundMsg(v), 400)
    ELSE IF ~bcryptCompare(password, doc.password)
    THEN ErrorHandler("login", v, Undef, "Invalid credentials", 400)
    ELSE IF ~doc.isVerified
    THEN ErrorHandler("login", v, Undef, NotVerifiedMsg(v), 400)
    ELSE sendToken("login", v, Undef, doc, 201, now)

\* a handler that does not look at isVerified
LoginUnverified(v, email, password) ==
    LET doc == findOneWithPassword(v, email) IN
    IF email = "" \/ password = Undef
    THEN ErrorHandler("login", v, Undef, "Please provide all fields!", 400)
    ELSE IF doc = NoDoc
    THEN ErrorHandler("login", v, Undef, LoginNotFoundMsg(v), 400)
    ELSE IF ~bcryptCompare(password, doc.password)
    THEN ErrorHandler("login", v, Undef, "Invalid credentials", 400)
    ELSE sendToken("login", v, Undef, doc, 201, now)

LoginResponse(v, email, password) ==
    LET doc == findOneWithPassword(v, email) IN
    IF email = "" \/ password = Undef
    THEN ErrorHandler("login", v, Undef, "Please provide all fields!", 400)
    ELSE IF doc = NoDoc
    THEN ErrorHandler("login", v, Undef, LoginNotFoundMsg(v), 400)
    ELSE IF ~doc.isVerified
    THEN ErrorHandler("login", v, Undef, NotVerifiedMsg(v), 400)
    ELSE IF ~bcryptCompare(password, doc.password)
    THEN ErrorHandler("login", v, Undef, "Invalid credentials", 400)
    ELSE sendToken("login", v, Undef, doc, 201, now)

Login(v, email, password) ==
    /\ Quiet
    /\ resp' = LoginResponse(v, email, password)
    /\ mail' = NoMail
    /\ UNCHANGED <<site, now, db, nextId, reqs, issued, inbox, products, orders>>

----------------------------------------------------------------------------
(* GET /logout *)

LogoutResponse(v) ==
    [op |-> "logout", v |-> v, given |-> Undef, status |-> IF v = "user" THEN 201 ELSE 200,
     message |-> "", token |-> NoToken,
     cookie |-> [name |-> CookieName(v), value |-> NoToken, expired |-> TRUE]]

Logout(v) ==
    /\ Quiet
    /\ resp' = LogoutResponse(v)
    /\ mail' = NoMail
    /\ UNCHANGED <<site, now, db, nextId, reqs, issued, inbox, products, orders>>

----------------------------------------------------------------------------
(* PUT /update-user-password, behind isAuthenticated (end-users only) *)

\* isAuthenticated: the status it answers with, 0 when it calls next()
\* a middleware that takes a missing account for a failed verification
isAuthenticatedNoAccount(token, t) ==
    IF token = NoToken THEN 401
    ELSE IF jwtVerify(token, t) = 0 THEN 401
    ELSE IF findById("user", jwtVerify(token, t)) = NoDoc THEN 401
    ELSE 0

isAuthenticated(token, t) ==
    IF token = NoToken THEN 401
    ELSE IF jwtVerify(token, t) = 0 THEN 401
    ELSE IF findById("user", jwtVerify(token, t)) = NoDoc THEN 404
    ELSE 0

\* a catch that hands the verification error on
isAuthenticatedEcho(token, t) ==
    IF token = NoToken THEN "Please login to continue"
    ELSE IF jwtVerify(token, t) = 0 THEN jwtVerifyError(token, t)
    ELSE IF findById("user", jwtVerify(token, t)) = NoDoc THEN "User not found"
    ELSE ""

\* isAuthenticated: the message of the error it passes to next()
isAuthenticatedMessage(token, t) ==
    IF token = NoToken THEN "Please login to continue"
    ELSE IF jwtVerify(token, t) = 0 THEN "Invalid or expired token"
    ELSE IF findById("user", jwtVerify(token, t)) = NoDoc THEN "User not found"
    ELSE ""

\* isAuthenticated: req.user, NoDoc when none is attached
reqUser(token, t) ==
    IF isAuthenticated(token, t) = 0 THEN findById("user", jwtVerify(token, t)) ELSE NoDoc

\* the Authorization header: absent, or <<scheme, credentials>>
NoHeader == Undef
Bearer(token) == <<"Bearer", token>>

\* a middleware that looks at the header first
sellerTokenHeaderFirst(cookie, authorization) ==
    IF authorization # NoHeader /\ authorization[1] = "Bearer" /\ authorization[2] # NoToken
    THEN authorization[2]
    ELSE cookie

\* isSeller: the token it verifies; the cookie, and the header only when
\* there is no cookie and the header starts with "Bearer "
sellerToken(cookie, authorization) ==
    IF cookie # NoToken THEN cookie
    ELSE IF authorization # NoHeader /\ authorization[1] = "Bearer"
    THEN authorization[2]
    ELSE NoToken

\* a middleware that lets a pending shop through
isSellerUnchecked(cookie, authorization, t) ==
    LET token == sellerToken(cookie, authorization) IN
    IF token = NoToken THEN 401
    ELSE IF jwtVerify(token, t) = 0 THEN 401
    ELSE IF findById("shop", jwtVerify(token, t)) = NoDoc THEN 404
    ELSE 0

\* isSeller: the status it answers with, 0 when it calls next()
isSeller(cookie, authorization, t) ==
    LET token == sellerToken(cookie, authorization) IN
    IF token = NoToken THEN 401
    ELSE IF jwtVerify(token, t) = 0 THEN 401
    ELSE IF findById("shop", jwtVerify(token, t)) = NoDoc THEN 404
    ELSE IF ~findById("shop", jwtVerify(token, t)).isVerified THEN 403
    ELSE 0

\* isSeller: the message of the error it passes to next()
isSellerMessage(cookie, authorization, t) ==
    LET token == sellerToken(cookie, authorization) IN
    IF token = NoToken THEN "Please login as a seller to continue"
    ELSE IF jwtVerify(token, t) = 0 THEN "Invalid or expired seller token"
    ELSE IF findById("shop", jwtVerify(token, t)) = NoDoc THEN "Seller not found"
    ELSE IF ~findById("shop", jwtVerify(token, t)).isVerified
    THEN "Please verify your shop account"
    ELSE ""

\* isSeller: req.seller, NoDoc when none is attached
reqSeller(cookie, authorization, t) ==
    IF isSeller(cookie, authorization, t) = 0
    THEN findById("shop", jwtVerify(sellerToken(cookie, authorization), t))
    ELSE NoDoc

\* a gate that compares roles without regard to case
isAdminAnyCase(roles, user) ==
    IF user # NoDoc /\ (user.role \in roles \/ (user.role = "admin" /\ "Admin" \in roles))
    THEN 0 ELSE 403

\* isAdmin(...roles): 0 when it calls next(), 403 otherwise
isAdmin(roles, user) ==
    IF user # NoDoc /\ user.role \in roles THEN 0 ELSE 403

\* isAdmin: `${req.user?.role || "User"} is not allowed to access this
\* resource!`, as the role it names
isAdminMessage(roles, user) ==
    IF isAdmin(roles, user) = 0 THEN ""
    ELSE IF user = NoDoc \/ user.role = "" THEN "User" ELSE user.role

\* the middleware, findById with the password, the two checks, the
\* assignment of the new password
UpdatePasswordFind(s, token, oldPassword, newPassword, confirmPassword) ==
    LET user == findByIdWithPassword("user", jwtVerify(token, now)) IN
    /\ FreeSlot(s)
    /\ site = "user"
    /\ mail' = NoMail
    /\ UNCHANGED <<site, now, db, nextId>>
    /\ IF isAuthenticated(token, now) = 401
       THEN Respond(s, ErrorHandler("password", "user", Undef,
                        IF token = NoToken THEN "Please login to continue"
                        ELSE "Invalid or expired token", 401))
       ELSE IF isAuthenticated(token, now) = 404
       THEN Respond(s, ErrorHandler("password", "user", Undef, "User not found", 404))
       ELSE IF ~bcryptCompare(oldPassword, user.password)
       THEN Respond(s, ErrorHandler("password", "user", Undef,
                                    "Old password is incorrect!", 400))
       ELSE IF newPassword # confirmPassword
       THEN Respond(s, ErrorHandler("password", "user", Undef,
                                    "Passwords don't match!", 400))
       ELSE Await(s, [op |-> "password", v |-> "user", pc |-> "save",
                      doc |-> [user EXCEPT !.password = newPassword],
                      modified |-> {"password"}])

\* await user.save()
UpdatePasswordSave(s) ==
    LET r == reqs[s] IN
    /\ Quiet /\ r.op = "password" /\ r.pc = "save"
    /\ db' = [db EXCEPT ![r.v] = saveInto(r.v, r.doc, r.modified)]
    /\ mail' = NoMail
    /\ UNCHANGED <<site, now, nextId>>
    /\ Respond(s, Success("password", r.v, 200))

----------------------------------------------------------------------------
(* Protected reads: GET /getuser behind isAuthenticated, GET /getshop behind
   isSeller, GET /admin-all-users and /admin-all-sellers behind
   isAuthenticated and isAdmin("Admin") *)

AdminRoles == {"Admin"}

\* given: the token the request came with
GetUserResponse(token) ==
    IF isAuthenticated(token, now) # 0
    THEN ErrorHandler("getuser", "user", token, isAuthenticatedMessage(token, now),
                      isAuthenticated(token, now))
    ELSE [Success("getuser", "user", 200) EXCEPT !.given = token]

GetUser(token) ==
    /\ Quiet
    /\ resp' = GetUserResponse(token)
    /\ mail' = NoMail
    /\ UNCHANGED <<site, now, db, nextId, reqs, issued, inbox, products, orders>>

\* the 200 answer repeats req.seller.token in its body
GetShopResponse(cookie, authorization) ==
    IF isSeller(cookie, authorization, now) # 0
    THEN ErrorHandler("getshop", "shop", sellerToken(cookie, authorization),
                      isSellerMessage(cookie, authorization, now),
                      isSeller(cookie, authorization, now))
    ELSE [Success("getshop", "shop", 200) EXCEPT
             !.given = sellerToken(cookie, authorization),
             !.token = sellerToken(cookie, authorization)]

GetShop(cookie, authorization) ==
    /\ Quiet
    /\ resp' = GetShopResponse(cookie, authorization)
    /\ mail' = NoMail
    /\ UNCHANGED <<site, now, db, nextId, reqs, issued, inbox, products, orders>>

\* v = "user": admin-all-users; v = "shop": admin-all-sellers; v =
\* "product": admin-all-products, which answers 200
AdminAllResponse(v, token) ==
    IF isAuthenticated(token, now) # 0
    THEN ErrorHandler("admin-all", v, Undef, isAuthenticatedMessage(token, now),
                      isAuthenticated(token, now))
    ELSE IF isAdmin(AdminRoles, reqUser(token, now)) # 0
    THEN ErrorHandler("admin-all", v, Undef,
                      isAdminMessage(AdminRoles, reqUser(token, now)), 403)
    ELSE Success("admin-all", v, IF v = "product" THEN 200 ELSE 201)

AdminAll(v, token) ==
    /\ Quiet
    /\ resp' = AdminAllResponse(v, token)
    /\ mail' = NoMail
    /\ UNCHANGED <<site, now, db, nextId, reqs, issued, inbox, products, orders>>

----------------------------------------------------------------------------
(* DELETE /delete-user/:id and /delete-seller/:id, behind isAuthenticated and
   isAdmin("Admin") *)

\* the middlewares, then findById(req.params.id); given: the token the
\* request came with
DeleteFind(s, v, token, id) ==
    LET doc == findById(v, id) IN
    /\ FreeSlot(s)
    /\ mail' = NoMail
    /\ UNCHANGED <<site, now, db, nextId>>
    /\ IF isAuthenticated(token, now) # 0
       THEN Respond(s, ErrorHandler("delete", v, token,
                        isAuthenticatedMessage(token, now), isAuthenticated(token, now)))
       ELSE IF isAdmin(AdminRoles, reqUser(token, now)) # 0
       THEN Respond(s, ErrorHandler("delete", v, token,
                        isAdminMessage(AdminRoles, reqUser(token, now)), 403))
       ELSE IF doc = NoDoc
       THEN Respond(s, ErrorHandler("delete", v, token,
                        IF v = "user" THEN "User not found"
                        ELSE "Seller is not available with this id", 400))
       ELSE Await(s, [op |-> "delete", v |-> v, pc |-> "delete", doc |-> doc,
                      modified |-> {}])

\* await Model.findByIdAndDelete(req.params.id)
DeleteRemove(s) ==
    LET r == reqs[s] IN
    /\ Quiet /\ r.op = "delete" /\ r.pc = "delete"
    /\ db' = [db EXCEPT ![r.v] = { d \in @ : d._id # r.doc._id }]
    /\ mail' = NoMail
    /\ UNCHANGED <<site, now, nextId>>
    /\ Respond(s, Success("delete", r.v, 201))

----------------------------------------------------------------------------
(* Profile updates.  End-user: PUT /update-user-info, /update-avatar; shop:
   PUT /update-shop-avatar, /update-seller-info, /update-payment-methods,
   DELETE /delete-withdraw-method *)

UpdateOps == {"update-user-info", "update-avatar", "update-shop-avatar",
              "update-seller-info", "delete-withdraw-method"}

UpdateStatus(op) == IF op \in {"update-avatar", "update-shop-avatar"} THEN 200 ELSE 201

\* isAuthenticated, then the account of the body's email with its password
UpdateUserInfoFind(s, token, email, password, name) ==
    LET user == findOneWithPassword("user", email) IN
    /\ FreeSlot(s)
    /\ site = "user"
    /\ mail' = NoMail
    /\ UNCHANGED <<site, now, db, nextId>>
    /\ IF isAuthenticated(token, now) # 0
       THEN Respond(s, ErrorHandler("update-user-info", "user", Undef,
                        isAuthenticatedMessage(token, now), isAuthenticated(token, now)))
       ELSE IF user = NoDoc
       THEN Respond(s, ErrorHandler("update-user-info", "user", Undef, "User not found", 400))
       ELSE IF ~bcryptCompare(password, user.password)
       THEN Respond(s, ErrorHandler("update-user-info", "user", Undef,
                                    "Invalid credentials", 400))
       ELSE Await(s, [op |-> "update-user-info", v |-> "user", pc |-> "save",
                      doc |-> [user EXCEPT !.name = name,
                                           !.email = toLowerCase(email)],
                      modified |-> {"name"}])

UpdateAvatarFind(s, token, avatar) ==
    LET existsUser == reqUser(token, now) IN
    /\ FreeSlot(s)
    /\ site = "user"
    /\ mail' = NoMail
    /\ UNCHANGED <<site, now, db, nextId>>
    /\ IF isAuthenticated(token, now) # 0
       THEN Respond(s, ErrorHandler("update-avatar", "user", Undef,
                        isAuthenticatedMessage(token, now), isAuthenticated(token, now)))
       ELSE Await(s, [op |-> "update-avatar", v |-> "user", pc |-> "save",
                      doc |-> IF avatar # "" THEN [existsUser EXCEPT !.avatar = avatar]
                              ELSE existsUser,
                      modified |-> IF avatar # "" THEN {"avatar"} ELSE {}])

\* the three shop handlers that load req.seller.id, assign and save:
\* update-shop-avatar (avatar), update-seller-info (name, description,
\* address, phoneNumber, zipCode), delete-withdraw-method (withdrawMethod)
SellerUpdateFind(s, op, cookie, authorization, value) ==
    LET shop == reqSeller(cookie, authorization, now) IN
    /\ FreeSlot(s)
    /\ site = "shop"
    /\ mail' = NoMail
    /\ UNCHANGED <<site, now, db, nextId>>
    /\ IF isSeller(cookie, authorization, now) # 0
       THEN Respond(s, ErrorHandler(op, "shop", Undef,
                        isSellerMessage(cookie, authorization, now),
                        isSeller(cookie, authorization, now)))
       ELSE Await(s, [op |-> op, v |-> "shop", pc |-> "save",
                      doc |-> IF op = "update-shop-avatar" THEN [shop EXCEPT !.avatar = value]
                              ELSE IF op = "update-seller-info" THEN [shop EXCEPT !.name = value]
                              ELSE [shop EXCEPT !.withdrawMethod = Undef],
                      modified |-> IF op = "update-shop-avatar" THEN {"avatar"}
                                   ELSE IF op = "update-seller-info" THEN {"name"}
                                   ELSE {"withdrawMethod"}])

\* await doc.save() of an update, then the answer
UpdateSave(s) ==
    LET r == reqs[s] IN
    /\ Quiet /\ r.op \in UpdateOps /\ r.pc = "save"
    /\ db' = [db EXCEPT ![r.v] = saveInto(r.v, r.doc, r.modified)]
    /\ mail' = NoMail
    /\ UNCHANGED <<site, now, nextId>>
    /\ Respond(s, Success(r.op, r.v, UpdateStatus(r.op)))

\* a replacement of the document: what the update does not name falls back
\* to the defaults of the schema
findOneAndReplace(v, id, withdrawMethod) ==
    { IF d._id = id
      THEN [d EXCEPT !.withdrawMethod = withdrawMethod, !.isVerified = FALSE]
      ELSE d : d \in db[v] }

\* Model.findByIdAndUpdate(id, { withdrawMethod }): $set of the one path
findByIdAndUpdate(v, id, withdrawMethod) ==
    { IF d._id = id THEN [d EXCEPT !.withdrawMethod = withdrawMethod] ELSE d : d \in db[v] }

\* Shop.findByIdAndUpdate(req.seller.id, { withdrawMethod }): one store
\* operation, without hooks
UpdatePaymentMethods(cookie, authorization, withdrawMethod) ==
    LET id == jwtVerify(sellerToken(cookie, authorization), now) IN
    /\ Quiet
    /\ site = "shop"
    /\ mail' = NoMail
    /\ UNCHANGED <<site, now, nextId, reqs, issued, inbox, products, orders>>
    /\ IF isSeller(cookie, authorization, now) # 0
       THEN /\ db' = db
            /\ resp' = ErrorHandler("update-payment-methods", "shop", Undef,
                            isSellerMessage(cookie, authorization, now),
                            isSeller(cookie, authorization, now))
       ELSE /\ db' = [db EXCEPT !["shop"] = findByIdAndUpdate("shop", id, withdrawMethod)]
            /\ resp' = Success("update-payment-methods", "shop", 201)

----------------------------------------------------------------------------
(* The system *)

Next ==
    \/ Tick
    \/ Flush
    \/ \E s \in Slots, email \in RawEmails, password \in RegisterPasswords,
          role \in {Undef}, avatarOk \in BOOLEAN, k \in MathRandom :
          RegisterFind(s, site, email, password, role, avatarOk, k)
    \/ \E s \in Slots, delivered \in BOOLEAN : RegisterMail(s, delivered)
    \/ \E s \in Slots, valid \in BOOLEAN : RegisterCreate(s, valid)
    \/ \E s \in Slots, email \in EmailInputs, k \in MathRandom :
          ResendFind(s, site, email, k)
    \/ \E s \in Slots : ResendSave(s)
    \/ \E s \in Slots, delivered \in BOOLEAN : ResendMail(s, delivered)
    \/ \E s \in Slots, email \in EmailInputs, otp \in OtpInputs :
          ActivateFind(s, site, email, otp)
    \/ \E s \in Slots : ActivateSave(s)
    \/ \E email \in EmailInputs, password \in PasswordInputs :
          Login(site, email, password)
    \/ Logout(site)

Spec == Init /\ [][Next]_vars

----------------------------------------------------------------------------
(* Concurrent registrations: MaxRacers Register requests in flight at once,
   for either spelling of the address *)

InitRace ==
    /\ site \in Variants
    /\ now = 0
    /\ db = [v \in Variants |-> {}]
    /\ nextId = 1
    /\ reqs = [s \in 1..MaxRacers |-> Idle]
    /\ resp = NoResp
    /\ mail = NoMail
    /\ issued = {}
    /\ inbox = Undef
    /\ products = {}
    /\ orders = {}

NextRace ==
    \/ Tick
    \/ Flush
    \/ \E s \in Slots, email \in RawEmails, password \in RegisterPasswords,
          role \in {Undef}, avatarOk \in BOOLEAN, k \in {0} :
          RegisterFind(s, site, email, password, role, avatarOk, k)
    \/ \E s \in Slots, delivered \in BOOLEAN : RegisterMail(s, delivered)
    \/ \E s \in Slots, valid \in BOOLEAN : RegisterCreate(s, valid)

SpecRace == InitRace /\ [][NextRace]_vars

----------------------------------------------------------------------------
(* One account under concurrent requests: MaxRacers Register, Resend OTP and
   Activate requests in flight at once, interleaved at every await *)

NextOtp ==
    \/ Tick
    \/ Flush
    \/ \E s \in Slots : RegisterFind(s, site, "a@x.io", <<"secret1">>, Undef, TRUE, 0)
    \/ \E s \in Slots : RegisterMail(s, TRUE)
    \/ \E s \in Slots : RegisterCreate(s, TRUE)
    \/ \E s \in Slots : ResendFind(s, site, "a@x.io", 999999)
    \/ \E s \in Slots : ResendSave(s)
    \/ \E s \in Slots : ResendMail(s, TRUE)
    \/ \E s \in Slots, otp \in OtpInputs \ {Undef} : ActivateFind(s, site, "a@x.io", otp)
    \/ \E s \in Slots : ActivateSave(s)

SpecOtp == InitRace /\ [][NextOtp]_vars

----------------------------------------------------------------------------
(* Passwords: registration, activation, Login and, for end-users, the change
   of the password with the token of a Login at that instant *)

FreshTokens == { getJwtToken(d, now) : d \in { x \in db["user"] : x.isVerified } }

NextPassword ==
    \/ Tick
    \/ Flush
    \/ \E s \in Slots, password \in Passwords :
          RegisterFind(s, site, "a@x.io", password, Undef, TRUE, 0)
    \/ \E s \in Slots : RegisterMail(s, TRUE)
    \/ \E s \in Slots : RegisterCreate(s, TRUE)
    \/ \E s \in Slots : ActivateFind(s, site, "a@x.io", genOtp(0))
    \/ \E s \in Slots : ActivateSave(s)
    \/ \E email \in RawEmails, password \in Passwords :
          Login(site, email, password)
    \/ \E s \in Slots, token \in FreshTokens \cup {NoToken},
          oldPassword, newPassword, confirmPassword \in Passwords :
          UpdatePasswordFind(s, token, oldPassword, newPassword, confirmPassword)
    \/ \E s \in Slots : UpdatePasswordSave(s)

SpecPassword == Init /\ [][NextPassword]_vars

----------------------------------------------------------------------------
(* Accounts over their whole life: every handler that writes an account, and
   the deletion by an operator, one request after the other.  No end-user account that POST /create-user
   stores passes isAdmin("Admin"), so the operator is an account written to
   the users collection by the deployment, present from the start *)

\* its ObjectId is none of those the store hands out to registrations
Operator ==
    [_id |-> MaxAccounts + 1, name |-> "n0", email |-> "root@x.io",
     password |-> bcryptHash(<<"secret1">>), avatar |-> "a0",
     withdrawMethod |-> Undef, role |-> "Admin", isVerified |-> TRUE,
     verificationOtp |-> Undef, verificationOtpExpiry |-> Undef]

InitOperator ==
    /\ site \in Variants
    /\ now = 0
    /\ db = [v \in Variants |-> IF v = "user" THEN {Operator} ELSE {}]
    /\ nextId = 1
    /\ reqs = [s \in {1} |-> Idle]
    /\ resp = NoResp
    /\ mail = NoMail
    /\ issued = {}
    /\ inbox = Undef
    /\ products = {}
    /\ orders = {}

\* the tokens a Login at this instant gives, one per verified account
FreshTokensOf(v) == { getJwtToken(d, now) : d \in { x \in db[v] : x.isVerified } }

NextProfile ==
    \/ Tick
    \/ Flush
    \/ \E s \in Slots : RegisterFind(s, site, "a@x.io", <<"secret1">>, Undef, TRUE, 0)
    \/ \E s \in Slots : RegisterMail(s, TRUE)
    \/ \E s \in Slots : RegisterCreate(s, TRUE)
    \/ \E s \in Slots : ResendFind(s, site, "a@x.io", 999999)
    \/ \E s \in Slots : ResendSave(s)
    \/ \E s \in Slots : ResendMail(s, TRUE)
    \/ \E s \in Slots, otp \in OtpInputs \ {Undef} : ActivateFind(s, site, "a@x.io", otp)
    \/ \E s \in Slots : ActivateSave(s)
    \/ \E password \in Passwords : Login(site, "a@x.io", password)
    \/ Logout(site)
    \/ \E s \in Slots, token \in FreshTokensOf("user"),
          oldPassword, newPassword \in Passwords :
          UpdatePasswordFind(s, token, oldPassword, newPassword, newPassword)
    \/ \E s \in Slots : UpdatePasswordSave(s)
    \/ \E s \in Slots, token \in FreshTokensOf("user"), password \in Passwords :
          UpdateUserInfoFind(s, token, "A@x.io", password, "n1")
    \/ \E s \in Slots, token \in FreshTokensOf("user"), avatar \in {"", "a1"} :
          UpdateAvatarFind(s, token, avatar)
    \/ \E s \in Slots, cookie \in FreshTokensOf("shop") :
          SellerUpdateFind(s, "update-shop-avatar", cookie, NoHeader, "a1")
    \/ \E s \in Slots, cookie \in FreshTokensOf("shop") :
          SellerUpdateFind(s, "update-seller-info", cookie, NoHeader, "n1")
    \/ \E s \in Slots, cookie \in FreshTokensOf("shop") :
          SellerUpdateFind(s, "delete-withdraw-method", cookie, NoHeader, "")
    \/ \E s \in Slots : UpdateSave(s)
    \/ \E cookie \in FreshTokensOf("shop") :
          UpdatePaymentMethods(cookie, NoHeader, <<"bank">>)
    \/ \E s \in Slots, id \in 1..MaxAccounts :
          DeleteFind(s, site, getJwtToken(Operator, now), id)
    \/ \E s \in Slots : DeleteRemove(s)

SpecProfile == InitOperator /\ [][NextProfile]_vars

----------------------------------------------------------------------------
(* Sessions: tokens given out by Activate and Login, kept by the client and
   presented later to the middlewares, untouched or with another signature,
   up to and past their expiry *)

\* the start, the last millisecond before a token of the first second
\* expires, and the first one after
SessionInstants == {0, JwtExpires * 1000 - 1, JwtExpires * 1000}

\* the operator has logged in at the start
InitSession ==
    /\ site \in Variants
    /\ now = 0
    /\ db = [v \in Variants |-> IF v = "user" THEN {Operator} ELSE {}]
    /\ nextId = 1
    /\ reqs = [s \in {1} |-> Idle]
    /\ resp = NoResp
    /\ mail = NoMail
    /\ issued = {getJwtToken(Operator, 0)}
    /\ inbox = Undef
    /\ products = {}
    /\ orders = {}

TickSession ==
    /\ Quiet
    /\ \E t \in SessionInstants : /\ t > now
                                   /\ \A u \in SessionInstants : u > now => t <= u
                                   /\ now' = t
    /\ UNCHANGED <<site, db, nextId, reqs, resp, mail, issued, inbox, products, orders>>

\* what a client can put into a cookie: nothing, a token it was given, or
\* such a token with another signature
Credentials == {NoToken} \cup issued \cup { tampered(token) : token \in issued }

\* what a client can put into the Authorization header
Headers == {NoHeader} \cup { Bearer(token) : token \in Credentials }
              \cup { <<"Basic", token>> : token \in issued }

NextSession ==
    \/ TickSession
    \/ Deliver
    \/ \E s \in Slots : RegisterFind(s, site, "a@x.io", <<"secret1">>, Undef, TRUE, 0)
    \/ \E s \in Slots : RegisterMail(s, TRUE)
    \/ \E s \in Slots : RegisterCreate(s, TRUE)
    \/ \E s \in Slots : ActivateFind(s, site, "a@x.io", genOtp(0))
    \/ \E s \in Slots : ActivateSave(s)
    \/ Login(site, "a@x.io", <<"secret1">>)
    \/ Logout(site)
    \/ \E s \in Slots, token \in issued :
          UpdatePasswordFind(s, token, <<"secret1">>, <<"hunter22">>, <<"hunter22">>)
    \/ \E s \in Slots : UpdatePasswordSave(s)
    \/ \E token \in Credentials : GetUser(token)
    \/ \E cookie \in Credentials, authorization \in Headers : GetShop(cookie, authorization)
    \/ \E token \in Credentials : AdminAll(site, token)
    \/ \E s \in Slots, token \in issued, id \in 1..MaxAccounts :
          DeleteFind(s, site, token, id)
    \/ \E s \in Slots : DeleteRemove(s)

SpecSession == InitSession /\ [][NextSession]_vars

----------------------------------------------------------------------------
(* Roles: registrations with every role a body can ask for, and the
   endpoints behind isAdmin("Admin") *)

\* req.body.role: absent, the values of the enum, and the operator's role
RoleBodies == RoleInputs \cup {<<"Admin">>}

\* GET /admin-all-users, /admin-all-sellers, /admin-all-products
AdminReads == {"user", "shop", "product"}

NextRoles ==
    \/ Deliver
    \/ \E s \in Slots, role \in RoleBodies :
          RegisterFind(s, site, "a@x.io", <<"secret1">>, role, TRUE, 0)
    \/ \E s \in Slots : RegisterMail(s, TRUE)
    \/ \E s \in Slots : RegisterCreate(s, TRUE)
    \/ \E s \in Slots : ActivateFind(s, site, "a@x.io", genOtp(0))
    \/ \E s \in Slots : ActivateSave(s)
    \/ Login(site, "a@x.io", <<"secret1">>)
    \/ \E token \in Credentials : GetUser(token)
    \/ \E v \in AdminReads, token \in Credentials : AdminAll(v, token)
    \/ \E s \in Slots, v \in Variants, token \in issued, id \in 1..MaxAccounts :
          DeleteFind(s, v, token, id)
    \/ \E s \in Slots : DeleteRemove(s)

SpecRoles == InitSession /\ [][NextRoles]_vars

----------------------------------------------------------------------------
(* Issue of tokens: Register, Resend OTP, Activate with the right and with a
   wrong OTP, Login with the right and with a wrong password, requests
   interleaved at every await, and the tokens given out presented to the
   middlewares *)

NextIssue ==
    \/ Tick
    \/ Deliver
    \/ \E s \in Slots : RegisterFind(s, site, "a@x.io", <<"secret1">>, Undef, TRUE, 0)
    \/ \E s \in Slots : RegisterMail(s, TRUE)
    \/ \E s \in Slots : RegisterCreate(s, TRUE)
    \/ \E s \in Slots : ResendFind(s, site, "a@x.io", 999999)
    \/ \E s \in Slots : ResendSave(s)
    \/ \E s \in Slots : ResendMail(s, TRUE)
    \/ \E s \in Slots, otp \in OtpInputs \ {Undef} : ActivateFind(s, site, "a@x.io", otp)
    \/ \E s \in Slots : ActivateSave(s)
    \/ \E password \in Passwords : Login(site, "a@x.io", password)
    \/ \E token \in issued : GetUser(token)
    \/ \E cookie \in issued : GetShop(cookie, NoHeader)

SpecIssue == InitRace /\ [][NextIssue]_vars

----------------------------------------------------------------------------
(* A pending account and its owner: Register, then Resend OTP and Activate
   with the OTP of the latest mail that arrived, or with any other, one
   request after the other, while time passes and mails may be lost.

   Fairness.  The event loop runs every continuation that is ready (the
   save and the mail of Resend OTP, the save of Activate) and every response
   goes out: weak fairness.  The transport is assumed to deliver a Resend
   mail eventually if mails keep being handed to it, and the owner is
   assumed to keep asking for a new OTP and to use an OTP that has arrived
   while it is the stored one and has not expired, if that keeps being
   possible: strong fairness. *)

InitLive ==
    /\ site \in Variants
    /\ now = 0
    /\ db = [v \in Variants |-> {}]
    /\ nextId = 1
    /\ reqs = [s \in {1} |-> Idle]
    /\ resp = NoResp
    /\ mail = NoMail
    /\ issued = {}
    /\ inbox = Undef
    /\ products = {}
    /\ orders = {}

\* the owner asks for a new OTP
OwnerResend == \E s \in Slots, k \in MathRandom : ResendFind(s, site, "a@x.io", k)

\* the owner sends the OTP of the latest mail while the store holds it
\* unexpired for the pending account
OwnerActivate ==
    /\ inbox # Undef
    /\ findOne(site, "a@x.io") # NoDoc
    /\ ~findOne(site, "a@x.io").isVerified
    /\ ~otpRejected(findOne(site, "a@x.io"), inbox, now)
    /\ \E s \in Slots : ActivateFind(s, site, "a@x.io", inbox)

NextLive ==
    \/ Tick
    \/ Receive
    \/ \E s \in Slots, k \in MathRandom :
          RegisterFind(s, site, "a@x.io", <<"secret1">>, Undef, TRUE, k)
    \/ \E s \in Slots, delivered \in BOOLEAN : RegisterMail(s, delivered)
    \/ \E s \in Slots : RegisterCreate(s, TRUE)
    \/ OwnerResend
    \/ \E s \in Slots : ResendSave(s)
    \/ \E s \in Slots : ResendMail(s, FALSE)
    \/ \E s \in Slots : ResendMail(s, TRUE)
    \/ OwnerActivate
    \/ \E s \in Slots, otp \in OtpInputs \ {Undef} : ActivateFind(s, site, "a@x.io", otp)
    \/ \E s \in Slots : ActivateSave(s)

FairLive ==
    /\ WF_vars(Receive)
    /\ WF_vars(\E s \in Slots : ResendSave(s))
    /\ WF_vars(\E s \in Slots, delivered \in BOOLEAN : ResendMail(s, delivered))
    /\ WF_vars(\E s \in Slots : ActivateSave(s))
    /\ SF_vars(\E s \in Slots : ResendMail(s, TRUE))
    /\ SF_vars(OwnerResend)
    /\ SF_vars(OwnerActivate)

SpecLive == InitLive /\ [][NextLive]_vars /\ FairLive

----------------------------------------------------------------------------
(* Reading the store and the answers in the claims *)

\* the account a request for the modelled address is about
Account == findOneWithPassword(site, "a@x.io")

Pending(d)  == d # NoDoc /\ ~d.isVerified
Verified(d) == d # NoDoc /\ d.isVerified

\* the stored document with the _id of d, before and after the step
Stored(d)    == { x \in db[site] : x._id = d._id }
StoredNext(d) == { x \in db'[site] : x._id = d._id }

IsAlreadyVerified(r)     == r.status = 400 /\ r.message = AlreadyVerifiedMsg(site)
IsInvalidOrExpiredOtp(r) == r.status = 400 /\ r.message = "Invalid or expired OTP"
IsNotVerified(r)         == r.status = 400 /\ r.message = NotVerifiedMsg(site)
IsInvalidCredentials(r)  == r.status = 400 /\ r.message = "Invalid credentials"
IsNotFound(r)            == r.status = 400 /\ r.message = NotFoundMsg(site)
NoTokenIssued(r)         == r.token = NoToken /\ r.cookie = NoCookie

\* slot s took in an activation request in this step
ActivateAccepted(s) ==
    reqs[s] = Idle /\ reqs'[s].op = "activate" /\ reqs'[s].pc = "save"

----------------------------------------------------------------------------
(* C1: for a pending account, Activate with the stored OTP at a time not
   after the stored expiry is taken in and its save sets isVerified, clears
   both OTP fields and answers 201 with a token for the account; once an
   account is verified it stays verified, and every Activate on it, whatever
   the OTP, is answered AlreadyVerified with no token and no cookie. *)
C1_Step ==
    /\ \A s \in Slots, otp \in OtpInputs \ {Undef} :
          ( /\ Pending(Account)
            /\ otp = Account.verificationOtp
            /\ now <= Account.verificationOtpExpiry[1]
            /\ ActivateFind(s, site, "a@x.io", otp) )
          => ActivateAccepted(s)
    /\ \A s \in Slots :
          ActivateSave(s) =>
            /\ \A d \in StoredNext(reqs[s].doc) :
                  /\ d.isVerified
                  /\ d.verificationOtp = Undef
                  /\ d.verificationOtpExpiry = Undef
            /\ StoredNext(reqs[s].doc) # {}
            /\ resp'.op = "activate" /\ resp'.status = 201
            /\ jwtVerify(resp'.token, now) = reqs[s].doc._id
    /\ \A d \in db[site] : d.isVerified => \A x \in StoredNext(d) : x.isVerified
    /\ \A s \in Slots, otp \in OtpInputs \ {Undef} :
          (Verified(Account) /\ ActivateFind(s, site, "a@x.io", otp))
          => /\ IsAlreadyVerified(resp')
             /\ NoTokenIssued(resp')
             /\ reqs'[s] = Idle
             /\ db' = db

C1_ActivateOnce == [][C1_Step]_vars

\* a second Activate with an OTP was answered AlreadyVerified
C1_Witness ==
    /\ resp.op = "activate" /\ IsAlreadyVerified(resp) /\ resp.given # Undef
    /\ Verified(Account) /\ Account.verificationOtp = Undef

----------------------------------------------------------------------------
(* C2: for an existing account whose isVerified is false, Login with either
   spelling of its address and any non-empty password, the one set at
   registration or another, is answered 400 NotVerified with no token and no
   cookie: the handler looks at isVerified before it compares the password. *)
C2_UnverifiedLogin ==
    /\ \A email \in RawEmails, password \in Passwords :
          Pending(findOneWithPassword(site, email)) =>
             LET r == LoginResponse(site, email, password) IN
             IsNotVerified(r) /\ NoTokenIssued(r)
    /\ (resp.op = "login" /\ Pending(Account)) =>
          resp.status = 400 /\ NoTokenIssued(resp)

\* a Login on a pending account was answered NotVerified
C2_Witness ==
    resp.op = "login" /\ IsNotVerified(resp) /\ NoTokenIssued(resp) /\ Pending(Account)

----------------------------------------------------------------------------
(* C3: for a pending account, Activate with an OTP other than the stored one
   is answered 400 "Invalid or expired OTP", before the stored expiry as well
   as after it; the step issues no token and leaves the store as it was
   (isVerified false, the same OTP and expiry), so the stored OTP is still
   taken as long as its expiry has not passed. *)
C3_Step ==
    \A s \in Slots, otp \in OtpInputs \ {Undef} :
       ( /\ Pending(Account)
         /\ otp # Account.verificationOtp
         /\ ActivateFind(s, site, "a@x.io", otp) )
       => /\ IsInvalidOrExpiredOtp(resp')
          /\ NoTokenIssued(resp')
          /\ reqs'[s] = Idle
          /\ db' = db
          /\ Pending(Account')
          /\ Account'.verificationOtp = Account.verificationOtp
          /\ Account'.verificationOtpExpiry = Account.verificationOtpExpiry
          /\ now' <= Account'.verificationOtpExpiry[1]
                => ~otpRejected(Account', Account'.verificationOtp, now')

C3_WrongOtp == [][C3_Step]_vars

\* an Activate with another OTP was refused while the stored OTP had not
\* expired
C3_Witness ==
    /\ resp.op = "activate" /\ IsInvalidOrExpiredOtp(resp)
    /\ Pending(Account)
    /\ resp.given # Undef /\ resp.given # Account.verificationOtp
    /\ now <= Account.verificationOtpExpiry[1]

----------------------------------------------------------------------------
(* C4: for a pending account, Activate with the stored OTP at a time after
   the stored expiry is answered 400 "Invalid or expired OTP" with no token
   and an unchanged store; no Activate is taken in for an account whose OTP
   has expired, and such an account stays pending with the same OTP pair in
   every step but the save of a Resend OTP, which installs that request's
   pair. *)
C4_Step ==
    /\ \A s \in Slots, otp \in OtpInputs \ {Undef} :
          ( /\ Pending(Account)
            /\ otp = Account.verificationOtp
            /\ Account.verificationOtpExpiry[1] < now
            /\ ActivateFind(s, site, "a@x.io", otp) )
          => /\ IsInvalidOrExpiredOtp(resp')
             /\ NoTokenIssued(resp')
             /\ reqs'[s] = Idle
             /\ db' = db
    /\ \A s \in Slots :
          (Pending(Account) /\ Account.verificationOtpExpiry[1] < now)
          => ~ActivateAccepted(s)
    /\ \A d \in db[site] :
          ( /\ Pending(d)
            /\ d.verificationOtpExpiry[1] < now
            /\ \A s \in Slots : reqs[s].op # "activate" )
          => /\ StoredNext(d) # {}
             /\ \A x \in StoredNext(d) :
                   /\ ~x.isVerified
                   /\ \/ x = d
                      \/ \E s \in Slots :
                            /\ reqs[s].op = "resend" /\ reqs[s].pc = "save"
                            /\ reqs'[s].pc = "mail"
                            /\ x.verificationOtp = reqs[s].doc.verificationOtp
                            /\ x.verificationOtpExpiry = reqs[s].doc.verificationOtpExpiry

C4_ExpiredOtp == [][C4_Step]_vars

\* an Activate with the stored OTP was refused after the expiry
C4_Witness ==
    /\ resp.op = "activate" /\ IsInvalidOrExpiredOtp(resp) /\ NoTokenIssued(resp)
    /\ Pending(Account)
    /\ resp.given = Account.verificationOtp
    /\ Account.verificationOtpExpiry[1] < now

----------------------------------------------------------------------------
(* C5: a Register request draws its OTP pair when it is taken in: six decimal
   digits that read as a number in 100000..999999, and an expiry of that
   instant plus ten minutes (600000 ms); a successful Register (201) inserts
   one account, with isVerified false and exactly that pair, however long the
   mail and the insert took. *)
TenMinutes == 600000

RECURSIVE otpNumber(_)
otpNumber(o) == IF o = <<>> THEN 0 ELSE 10 * otpNumber(SubSeq(o, 1, Len(o) - 1)) + o[Len(o)]

SixDigits(o) ==
    /\ Len(o) = 6
    /\ \A i \in 1..6 : o[i] \in 0..9
    /\ otpNumber(o) >= 100000 /\ otpNumber(o) <= 999999

C5_Step ==
    /\ \A s \in Slots :
          (reqs[s] = Idle /\ reqs'[s].op = "register")
          => /\ ~reqs'[s].doc.isVerified
             /\ SixDigits(reqs'[s].doc.verificationOtp)
             /\ reqs'[s].doc.verificationOtpExpiry = Num(now + TenMinutes)
    /\ (resp = NoResp /\ resp'.op = "register" /\ resp'.status = 201)
          => \E s \in Slots :
                /\ reqs[s].op = "register" /\ reqs[s].pc = "create" /\ reqs'[s] = Idle
                /\ Cardinality(db'[site] \ db[site]) = 1
                /\ \A x \in db'[site] \ db[site] :
                      /\ ~x.isVerified
                      /\ x.email = toLowerCase(reqs[s].doc.email)
                      /\ x.verificationOtp = reqs[s].doc.verificationOtp
                      /\ x.verificationOtpExpiry = reqs[s].doc.verificationOtpExpiry
                      /\ SixDigits(x.verificationOtp)
                      /\ \E t \in Instants :
                            t <= now /\ x.verificationOtpExpiry = Num(t + TenMinutes)

C5_RegisterPending == [][C5_Step]_vars

\* a Register succeeded at an instant later than the one its OTP was drawn at
C5_Witness ==
    /\ resp.op = "register" /\ resp.status = 201
    /\ Pending(Account)
    /\ SixDigits(Account.verificationOtp)
    /\ Account.verificationOtpExpiry[1] < now + TenMinutes

----------------------------------------------------------------------------
(* C6: a Register request is at its insert only after its mail went out: the
   step that brings it there is the dispatch, answered "delivered"; a failed
   dispatch ends the request with status 500 and leaves the store as it was,
   so an address that had no account before the step has none after it; and
   accounts are inserted only by the step of a request at its insert. *)
C6_Step ==
    /\ \A s \in Slots :
          (reqs'[s].op = "register" /\ reqs'[s].pc = "create" /\ reqs'[s] # reqs[s])
          => /\ reqs[s].op = "register" /\ reqs[s].pc = "mail"
             /\ mail'.ok /\ mail'.to = reqs[s].doc.email
             /\ mail'.otp = reqs[s].doc.verificationOtp
             /\ db' = db
    /\ \A s \in Slots :
          ( /\ reqs[s].op = "register" /\ reqs[s].pc = "mail" /\ reqs'[s] # reqs[s]
            /\ ~mail'.ok )
          => /\ resp'.op = "register" /\ resp'.status = 500
             /\ NoTokenIssued(resp')
             /\ reqs'[s] = Idle
             /\ db' = db
             /\ findOne(site, reqs[s].doc.email) = NoDoc
                   => \A x \in db'[site] : x.email # toLowerCase(reqs[s].doc.email)
    /\ db'[site] # db[site] /\ Cardinality(db'[site]) > Cardinality(db[site])
          => \E s \in Slots :
                reqs[s].op = "register" /\ reqs[s].pc = "create" /\ reqs'[s] = Idle

C6_MailBeforeCreate == [][C6_Step]_vars

\* a Register failed at its dispatch and the address has no account
C6_Witness ==
    /\ resp.op = "register" /\ resp.status = 500
    /\ mail # NoMail /\ ~mail.ok
    /\ Account = NoDoc

----------------------------------------------------------------------------
(* C7: under any interleaving of Register requests for one address, in either
   spelling, no two accounts of a variant have the same email; a Register is
   answered 201 exactly when its step inserted an account, and every other
   answer to a Register is an error of status 400 or 500 (the conflict of the
   existence check, or the duplicate key error of the unique index) that
   leaves the store as it was. *)
C7_AtMostOne ==
    \A v \in Variants : \A d1, d2 \in db[v] : d1.email = d2.email => d1 = d2

C7_Step ==
    /\ C7_AtMostOne'
    /\ (resp = NoResp /\ resp'.op = "register")
          => IF db' # db
             THEN resp'.status = 201 /\ Cardinality(db'[site]) = Cardinality(db[site]) + 1
             ELSE resp'.status \in {400, 500} /\ resp'.message # ""

C7_UniqueEmail == [][C7_Step]_vars

\* a Register that passed the existence check lost at the unique index
C7_Witness ==
    /\ resp.op = "register" /\ resp.status = 500
    /\ resp.message = "E11000 duplicate key"
    /\ Cardinality(db[site]) = 1

----------------------------------------------------------------------------------------------------------------------------------------
(* C8: the password an account holds is the one given at registration until
   a change of password sets another, and what is stored is its hash; for a
   verified account, Login with its address, in either spelling, and a
   password other than the one set is answered 400 "Invalid credentials" with
   no token and no cookie, and Login with the password set is answered 201
   with a token (also set as the cookie) whose verification yields the _id of
   that account, by which findById finds it. *)
C8_Inv ==
    /\ \A email \in RawEmails, password \in Passwords :
          LET d == findOneWithPassword(site, email)
              r == LoginResponse(site, email, password)
          IN  Verified(d) =>
                IF d.password = <<"$2a$10$">> \o password
                THEN /\ r.status = 201
                     /\ r.token # NoToken
                     /\ r.cookie.value = r.token
                     /\ jwtVerify(r.token, now) = d._id
                     /\ findById(site, jwtVerify(r.token, now))._id = d._id
                ELSE IsInvalidCredentials(r) /\ NoTokenIssued(r)
    /\ (resp.op = "login" /\ resp.status = 201)
          => Verified(Account) /\ jwtVerify(resp.token, now) = Account._id
    /\ (resp.op = "login" /\ IsInvalidCredentials(resp)) => NoTokenIssued(resp)

C8_Step ==
    /\ C8_Inv'
    /\ \A s \in Slots :
          (reqs[s].op = "register" /\ reqs[s].pc = "create" /\ reqs'[s] # reqs[s])
          => \A x \in db'[site] \ db[site] :
                x.password = <<"$2a$10$">> \o reqs[s].doc.password
    /\ \A s \in Slots :
          (reqs[s].op = "password" /\ reqs[s].pc = "save" /\ reqs'[s] # reqs[s])
          => /\ StoredNext(reqs[s].doc) # {}
             /\ \A x \in StoredNext(reqs[s].doc) :
                   x.password = <<"$2a$10$">> \o reqs[s].doc.password
    /\ \A d \in db[site] : \A x \in StoredNext(d) :
          x.password # d.password
          => \E s \in Slots :
                reqs[s].op = "password" /\ reqs[s].pc = "save" /\ reqs'[s] = Idle

C8_Login == [][C8_Step]_vars

\* after a change of the password to "hunter22", a Login with it succeeded
\* with a token for the account, and the password of the registration is
\* refused
C8_Witness ==
    /\ resp.op = "login" /\ resp.status = 201
    /\ Verified(Account)
    /\ jwtVerify(resp.token, now) = Account._id
    /\ Account.password = <<"$2a$10$", "hunter22">>
    /\ IsInvalidCredentials(LoginResponse(site, "a@x.io", <<"secret1">>))

----------------
(* C9: Resend OTP on a pending account draws a new pair, the expiry being the
   instant of the request plus ten minutes, and its save writes that pair to
   the stored account and changes nothing else of it or of the store: the
   account is as verified as it was, pending if it was pending; Resend OTP on
   a verified account is answered 400 AlreadyVerified and on an address
   without an account 400 NotFound, both with the store unchanged, no mail
   and the request over. *)
C9_Step ==
    /\ \A s \in Slots :
          (reqs[s] = Idle /\ reqs'[s].op = "resend")
          => /\ Pending(Account)
             /\ reqs'[s].pc = "save"
             /\ SixDigits(reqs'[s].doc.verificationOtp)
             /\ reqs'[s].doc.verificationOtpExpiry = Num(now + TenMinutes)
             /\ db' = db /\ mail' = NoMail
    /\ \A s \in Slots :
          (reqs[s].op = "resend" /\ reqs[s].pc = "save" /\ reqs'[s] # reqs[s])
          => /\ reqs'[s].pc = "mail"
             /\ mail' = NoMail
             /\ db'[IF site = "user" THEN "shop" ELSE "user"]
                   = db[IF site = "user" THEN "shop" ELSE "user"]
             /\ Cardinality(db'[site]) = Cardinality(db[site])
             /\ \A d \in db[site] :
                   /\ StoredNext(d) # {}
                   /\ \A x \in StoredNext(d) :
                         IF d._id = reqs[s].doc._id
                         THEN x = [d EXCEPT
                                     !.verificationOtp = reqs[s].doc.verificationOtp,
                                     !.verificationOtpExpiry =
                                         reqs[s].doc.verificationOtpExpiry]
                         ELSE x = d
    /\ \A s \in Slots, email \in EmailInputs \ {""}, k \in MathRandom :
          ( /\ ~Pending(findOne(site, email))
            /\ ResendFind(s, site, email, k) )
          => /\ IF findOne(site, email) = NoDoc
                THEN IsNotFound(resp')
                ELSE IsAlreadyVerified(resp')
             /\ resp'.op = "resend"
             /\ reqs'[s] = Idle
             /\ db' = db
             /\ mail' = NoMail

C9_ResendFrame == [][C9_Step]_vars

\* the save of a Resend OTP wrote its pair, drawn ten minutes or more after
\* the start, to a pending account
C9_Witness ==
    \E s \in Slots :
       /\ reqs[s].op = "resend" /\ reqs[s].pc = "mail"
       /\ Pending(Account)
       /\ Account.verificationOtp = reqs[s].doc.verificationOtp
       /\ Account.verificationOtpExpiry = reqs[s].doc.verificationOtpExpiry
       /\ Account.verificationOtpExpiry[1] >= 2 * TenMinutes
       /\ Account.password # Undef

----------------------------------------------------------------------------
(* C10: a Resend OTP request is at its mail only after its save: the step
   that brings it there wrote its pair to the store, and from then on the
   account takes that OTP up to its expiry and refuses every other, the
   previous one included when it differs; a failed dispatch is answered 500
   "Failed to send OTP email" and rolls nothing back. *)
C10_Step ==
    /\ \A s \in Slots :
          (reqs'[s].op = "resend" /\ reqs'[s].pc = "mail" /\ reqs'[s] # reqs[s])
          => /\ reqs[s].op = "resend" /\ reqs[s].pc = "save"
             /\ mail' = NoMail
             /\ \A d \in Stored(reqs[s].doc) : \A x \in StoredNext(d) :
                   /\ x.verificationOtp = reqs[s].doc.verificationOtp
                   /\ x.verificationOtpExpiry = reqs[s].doc.verificationOtpExpiry
                   /\ now <= x.verificationOtpExpiry[1]
                         => ~otpRejected(x, reqs[s].doc.verificationOtp, now)
                   /\ \A otp \in OtpInputs :
                         otp # x.verificationOtp => otpRejected(x, otp, now)
                   /\ d.verificationOtp # x.verificationOtp
                         => otpRejected(x, d.verificationOtp, now)
    /\ \A s \in Slots :
          ( /\ reqs[s].op = "resend" /\ reqs[s].pc = "mail" /\ reqs'[s] # reqs[s]
            /\ ~mail'.ok )
          => /\ resp'.op = "resend" /\ resp'.status = 500
             /\ resp'.message = "Failed to send OTP email"
             /\ NoTokenIssued(resp')
             /\ reqs'[s] = Idle
             /\ db' = db

C10_ResendMailFailure == [][C10_Step]_vars

\* the dispatch of a Resend OTP failed and the account holds the OTP of that
\* mail, unexpired
C10_Witness ==
    /\ resp.op = "resend" /\ resp.status = 500
    /\ mail # NoMail /\ ~mail.ok
    /\ Pending(Account)
    /\ mail.otp = Account.verificationOtp
    /\ now <= Account.verificationOtpExpiry[1]

----------------------------------------------------------------------------
(* C11: in every reachable state, under any interleaving of Register, Resend
   OTP and Activate requests on one account, an account with isVerified true
   has neither a stored OTP nor a stored expiry, and an account with
   isVerified false has both. *)
C11_OtpIffPending ==
    \A v \in Variants : \A d \in db[v] :
       IF d.isVerified
       THEN d.verificationOtp = Undef /\ d.verificationOtpExpiry = Undef
       ELSE d.verificationOtp # Undef /\ d.verificationOtpExpiry # Undef

----------------------------------------------------------------------------
(* C12: verification is monotonic.  In every step of every handler (Register,
   Resend OTP, Activate, Login, Logout, the profile, avatar, password and
   payment-method updates), an account that is verified before the step is
   still in the store and still verified after it; the one exception is the
   step of DELETE /delete-user/:id or /delete-seller/:id that removes that
   very account. *)

\* this step is the findByIdAndDelete of the account with that _id
DeletionOf(v, id) ==
    \E s \in DOMAIN reqs :
       /\ reqs[s].op = "delete" /\ reqs[s].pc = "delete"
       /\ reqs[s].v = v /\ reqs[s].doc._id = id
       /\ reqs'[s] = Idle

C12_Step ==
    \A v \in Variants : \A d \in db[v] :
       d.isVerified =>
          \/ \E e \in db'[v] : e._id = d._id /\ e.isVerified
          \/ /\ DeletionOf(v, d._id)
             /\ \A e \in db'[v] : e._id # d._id

C12_VerifiedStays == [][C12_Step]_vars

\* a verified account after its profile, its avatar and its password or
\* payment method were updated, at the answer to its Logout
C12_Witness ==
    /\ resp.op = "logout"
    /\ \E d \in db[site] :
          /\ d._id # Operator._id /\ d.isVerified
          /\ d.name = "n1" /\ d.avatar = "a1"
          /\ IF site = "user" THEN d.password = bcryptHash(<<"hunter22">>)
             ELSE d.withdrawMethod = <<"bank">>

----------------------------------------------------------------------------
(* C13: in both middlewares, a token that fails verification, whether its
   signature is wrong or its expiry has passed, is answered 401 with one
   fixed message ("Invalid or expired token" / "Invalid or expired seller
   token"); no principal is attached and the protected handler does not
   run. *)

\* the tokens a client can present that jwt.verify rejects at this instant
FailingTokens == { token \in Credentials \ {NoToken} : jwtVerify(token, now) = 0 }

C13_FailedVerification ==
    \A token \in FailingTokens :
       /\ isAuthenticated(token, now) = 401
       /\ isAuthenticatedMessage(token, now) = "Invalid or expired token"
       /\ reqUser(token, now) = NoDoc
       /\ GetUserResponse(token).status = 401
       /\ AdminAllResponse("user", token).status = 401
       /\ \A authorization \in Headers :
             /\ isSeller(token, authorization, now) = 401
             /\ isSellerMessage(token, authorization, now) = "Invalid or expired seller token"
             /\ reqSeller(token, authorization, now) = NoDoc
             /\ GetShopResponse(token, authorization).status = 401
       /\ isSeller(NoToken, Bearer(token), now) = 401
       /\ isSellerMessage(NoToken, Bearer(token), now) = "Invalid or expired seller token"
       /\ reqSeller(NoToken, Bearer(token), now) = NoDoc

\* a protected read was refused for a token past its expiry while a token
\* with a wrong signature is at hand as well
C13_Witness ==
    /\ resp.op \in {"getuser", "getshop"}
    /\ resp.status = 401
    /\ resp.given # NoToken
    /\ jwtVerifyError(resp.given, now) = "TokenExpiredError"
    /\ \E token \in FailingTokens : jwtVerifyError(token, now) = "JsonWebTokenError"

----------------------------------------------------------------------------
(* C14: a token that still verifies (right signature, not expired) but whose
   account is no longer in the collection is answered 404 ("User not found" /
   "Seller not found"), not 401, by both middlewares, and the protected
   handler does not run. *)

\* the tokens given out that jwt.verify accepts at this instant
LiveTokens == { token \in issued : jwtVerify(token, now) # 0 }

C14_DeletedAccount ==
    \A token \in LiveTokens :
       /\ findById("user", token[1]) = NoDoc =>
             /\ isAuthenticated(token, now) = 404
             /\ isAuthenticatedMessage(token, now) = "User not found"
             /\ reqUser(token, now) = NoDoc
             /\ GetUserResponse(token).status = 404
       /\ findById("shop", token[1]) = NoDoc =>
             \A authorization \in Headers :
                /\ isSeller(token, authorization, now) = 404
                /\ isSellerMessage(token, authorization, now) = "Seller not found"
                /\ reqSeller(token, authorization, now) = NoDoc
                /\ GetShopResponse(token, authorization).status = 404

\* the 404 of a protected read for the token of an account that was
\* registered in this collection and has been deleted since
C14_Witness ==
    /\ resp.op = (IF site = "user" THEN "getuser" ELSE "getshop")
    /\ resp.status = 404
    /\ resp.given \in LiveTokens
    /\ resp.given[1] \in 1..(nextId - 1)
    /\ findById(site, resp.given[1]) = NoDoc

----------------------------------------------------------------------------
(* C15: isSeller verifies the seller_token cookie whenever the request has
   one, whatever the Authorization header says; it verifies the header's
   token only when there is no cookie and the header is of the Bearer scheme;
   it answers 401 "Please login as a seller to continue" when neither gives a
   token; a request whose cookie fails verification is answered 401 even
   when its header carries a token that would pass. *)

C15_TokenSource ==
    \A cookie \in Credentials : \A authorization \in Headers :
       /\ cookie # NoToken =>
             GetShopResponse(cookie, authorization) = GetShopResponse(cookie, NoHeader)
       /\ (cookie = NoToken /\ authorization # NoHeader /\ authorization[1] = "Bearer") =>
             GetShopResponse(cookie, authorization)
                = GetShopResponse(authorization[2], NoHeader)
       /\ (/\ cookie = NoToken
           /\ \/ authorization = NoHeader
              \/ authorization[1] # "Bearer"
              \/ authorization[2] = NoToken) =>
             /\ isSeller(cookie, authorization, now) = 401
             /\ isSellerMessage(cookie, authorization, now)
                   = "Please login as a seller to continue"
             /\ GetShopResponse(cookie, authorization).status = 401
       /\ (cookie # NoToken /\ jwtVerify(cookie, now) = 0) =>
             /\ isSeller(cookie, authorization, now) = 401
             /\ GetShopResponse(cookie, authorization).status = 401

\* GET /getshop was refused for a cookie with a wrong signature, in a state
\* where the same token, untouched, in the header alone is let through
C15_Witness ==
    /\ resp.op = "getshop"
    /\ resp.status = 401
    /\ resp.given # NoToken
    /\ jwtVerifyError(resp.given, now) = "JsonWebTokenError"
    /\ \E token \in LiveTokens :
          /\ tampered(token) = resp.given
          /\ isSeller(NoToken, Bearer(token), now) = 0
          /\ isSeller(resp.given, Bearer(token), now) = 401

----------------------------------------------------------------------------
(* C16: for a resolved principal and an allow-list, the role gate calls the
   next handler exactly when the principal's role is in the allow-list;
   otherwise it answers 403 with a message that names the principal's own
   role, and the guarded handler does not run (an account of role user
   against {"Admin"} is refused with "user is not allowed ..."). *)

AllowLists == SUBSET {"Admin", "admin", "user"}

C16_RoleGate ==
    /\ \A user \in db["user"] : \A roles \in AllowLists :
          /\ isAdmin(roles, user) = 0 <=> user.role \in roles
          /\ user.role \notin roles =>
                /\ isAdmin(roles, user) = 403
                /\ isAdminMessage(roles, user) = user.role
    /\ \A token \in LiveTokens : \A v \in AdminReads :
          isAuthenticated(token, now) = 0 =>
             /\ reqUser(token, now).role \in AdminRoles =>
                   AdminAllResponse(v, token).status \in {200, 201}
             /\ reqUser(token, now).role \notin AdminRoles =>
                   /\ AdminAllResponse(v, token).status = 403
                   /\ AdminAllResponse(v, token).message = reqUser(token, now).role

\* an account of role user was refused at an admin read, by its role
C16_Witness ==
    /\ resp.op = "admin-all"
    /\ resp.status = 403
    /\ resp.message = "user"
    /\ \E token \in LiveTokens : /\ isAuthenticated(token, now) = 0
                                  /\ reqUser(token, now).role = "user"

----------------------------------------------------------------------------
(* C17: tokens are never revoked.  Logout always answers success and leaves
   the store as it is; and after every step, whatever it was (Logout, Login,
   a password change, ...), every token given out earlier whose expiry has
   not passed and whose account is still in its collection is accepted by
   that collection's middleware, and the protected read answers 200. *)

\* the tokens given out whose expiry has not passed
UnexpiredTokens == { token \in issued : now \div 1000 < token[3] }

C17_Accepted ==
    \A token \in UnexpiredTokens :
       /\ findById("user", token[1]) # NoDoc =>
             /\ isAuthenticated(token, now) = 0
             /\ reqUser(token, now)._id = token[1]
             /\ GetUserResponse(token).status = 200
       /\ findById("shop", token[1]) # NoDoc =>
             /\ isSeller(token, NoHeader, now) = 0
             /\ reqSeller(token, NoHeader, now)._id = token[1]
             /\ GetShopResponse(token, NoHeader).status = 200

C17_Step ==
    /\ (resp'.op = "logout" /\ resp' # resp) =>
          /\ resp'.status \in {200, 201}
          /\ db' = db
          /\ issued' = issued
    /\ C17_Accepted'

C17_NeverRevoked == [][C17_Step]_vars

\* a protected read let a token through that is older than another token of
\* the same account, after the end-user's password was changed
C17_Witness ==
    /\ resp.op = (IF site = "user" THEN "getuser" ELSE "getshop")
    /\ resp.status = 200
    /\ resp.given \in UnexpiredTokens
    /\ resp.given[1] # Operator._id
    /\ \E other \in issued : other[1] = resp.given[1] /\ other[2] > resp.given[2]
    /\ site = "user" =>
          findByIdWithPassword("user", resp.given[1]).password = bcryptHash(<<"hunter22">>)

----------------------------------------------------------------------------
(* C18: after every step the stored password of every account, end-user or
   shop, is the bcrypt hash of a plaintext (not the plaintext, not the hash
   of a hash): an account that enters the store has the hash of the password
   of its Register request; a stored password changes only in the save of
   PUT /update-user-password, to the hash of that request's new password;
   every other save (Activate, Resend OTP, profile, avatar, withdraw method)
   leaves it as it was, and Login with the password that was set last is
   still answered with a token. *)

\* this step is the save of a password change of the account with that _id,
\* to the plaintext p
PasswordChangeOf(id, p) ==
    \E s \in DOMAIN reqs :
       /\ reqs[s].op = "password" /\ reqs[s].pc = "save"
       /\ reqs[s].doc._id = id /\ reqs[s].doc.password = p
       /\ reqs'[s] = Idle

\* this step is the create of a Register request with the password p
CreationWith(p) ==
    \E s \in DOMAIN reqs :
       /\ reqs[s].op = "register" /\ reqs[s].pc = "create"
       /\ reqs[s].doc.password = p
       /\ reqs'[s] = Idle

C18_Step ==
    \A v \in Variants : \A e \in db'[v] :
       /\ \E p \in Passwords : e.password = bcryptHash(p)
       /\ \A d \in db[v] :
             (d._id = e._id /\ d.password # e.password) =>
                \E p \in Passwords : PasswordChangeOf(e._id, p) /\ e.password = bcryptHash(p)
       /\ (\A d \in db[v] : d._id # e._id) =>
             \E p \in Passwords : CreationWith(p) /\ e.password = bcryptHash(p)
       /\ \A p \in Passwords :
             (e.isVerified /\ e.password = bcryptHash(p)) =>
                (LoginResponse(v, e.email, p).token # NoToken)'

C18_HashedOnce == [][C18_Step]_vars

\* a shop whose Activate, profile and avatar saves have run logs in with
\* the password of its registration
C18_Witness ==
    /\ site = "shop"
    /\ resp.op = "login"
    /\ resp.token # NoToken
    /\ \E d \in db["shop"] :
          /\ d.isVerified /\ d.name = "n1" /\ d.avatar = "a1"
          /\ d.password = bcryptHash(<<"secret1">>)

----------------------------------------------------------------------------
(* C19: a token is issued only for an account that is verified at that
   moment.  Every step that answers with a new token (Activate, Login)
   leaves the token's account stored and verified; whatever Register,
   Resend OTP, refused Activate and refused Login requests there were, with
   requests interleaved, no token given out belongs to a pending account,
   and isSeller answers none of them 403. *)

\* the tokens given out, the one in the response of this step included
TokensOut == issued \cup (IF resp.token = NoToken THEN {} ELSE {resp.token})

C19_NoneForPending ==
    /\ \A token \in TokensOut : \A v \in Variants : \A d \in db[v] :
          d._id = token[1] => d.isVerified
    /\ \A token \in TokensOut :
          /\ isSeller(token, NoHeader, now) # 403
          /\ isSeller(NoToken, Bearer(token), now) # 403

C19_Step ==
    /\ (resp'.token # NoToken /\ resp' # resp /\ resp'.op \in {"activate", "login"}) =>
          \E d \in db'[resp'.v] : d._id = resp'.token[1] /\ d.isVerified
    /\ C19_NoneForPending'

C19_IssuedWhenVerified == [][C19_Step]_vars

\* a pending account after a Resend OTP, a refused Activate and then a
\* refused Login, with no token given out
C19_Witness ==
    /\ Account # NoDoc
    /\ Pending(Account)
    /\ Account.verificationOtp = genOtp(999999)
    /\ resp.op = "login"
    /\ IsNotVerified(resp)
    /\ TokensOut = {}

----------------------------------------------------------------------------
(* C20: every end-user account that POST /create-user has stored has a role
   of the enum {user, seller, instructor, serviceProvider, admin}; the gate
   of the admin endpoints is isAdmin("Admin"), an exact comparison, so a
   request authenticated as such an account, one of role admin included, is
   answered 403 by GET /admin-all-users, /admin-all-sellers and
   /admin-all-products and by DELETE /delete-user/:id and /delete-seller/:id,
   and deletes nothing. *)

\* the end-user accounts that Register stored
Registered == { d \in db["user"] : d._id \in 1..MaxAccounts }

\* the tokens given out that isAuthenticated resolves to such an account
RegisteredTokens ==
    { token \in LiveTokens : \E d \in Registered : reqUser(token, now)._id = d._id }

C20_Inv ==
    /\ \A d \in Registered :
          /\ d.role \in Roles
          /\ isAdmin(AdminRoles, d) = 403
    /\ \A token \in RegisteredTokens : \A v \in AdminReads :
          /\ AdminAllResponse(v, token).status = 403
          /\ AdminAllResponse(v, token).message = reqUser(token, now).role

C20_Step ==
    /\ (resp'.op = "delete" /\ resp' # resp /\ resp'.given \in RegisteredTokens) =>
          /\ resp'.status = 403
          /\ db' = db
          /\ \A s \in DOMAIN reqs : reqs'[s].op # "delete"
    /\ C20_Inv'

----------------------------------------------------------------------------
(* C21: no pending account is stuck.  In every state with a pending account,
   its OTP expired or not, the last mail lost or not: a Resend OTP is taken
   in, sets an expiry ahead of now and its save stores that pair; an Activate with
   the stored OTP no later than the stored expiry is taken in, and its save
   leaves the account verified.  If mails are eventually delivered and the
   owner keeps asking for an OTP and using the one that arrived, a pending
   account is eventually verified. *)

C21_Step ==
    \A s \in DOMAIN reqs :
       \* a Resend OTP for a pending account is never refused
       /\ (reqs[s] = Idle /\ reqs'[s] = Idle /\ resp'.op = "resend" /\ resp' # resp
              /\ Account # NoDoc) => Verified(Account)
       \* it sets an expiry that lies ahead, and its save stores the
       \* request's pair
       /\ (reqs[s] = Idle /\ reqs'[s].op = "resend") =>
             reqs'[s].doc.verificationOtpExpiry[1] > now
       /\ (reqs[s].op = "resend" /\ reqs[s].pc = "save" /\ reqs'[s] # reqs[s]) =>
             /\ Pending(Account')
             /\ Account'.verificationOtp = reqs[s].doc.verificationOtp
             /\ Account'.verificationOtpExpiry = reqs[s].doc.verificationOtpExpiry
       \* an Activate with the stored OTP of a pending account, not after the
       \* expiry, is taken in
       /\ (/\ reqs[s] = Idle /\ resp'.op = "activate" /\ resp' # resp
           /\ Pending(Account)
           /\ resp'.given = Account.verificationOtp) =>
             expired(Account, now)
       \* and its save verifies the account
       /\ (reqs[s].op = "activate" /\ reqs[s].pc = "save" /\ reqs'[s] # reqs[s]) =>
             Verified(Account')

C21_NeverStuck == [][C21_Step]_vars /\ (Pending(Account) ~> Verified(Account))

\* an account verified by an OTP of a Resend, after the OTP of its
\* registration had expired
C21_Witness ==
    /\ resp.op = "activate"
    /\ resp.token # NoToken
    /\ Verified(Account)
    /\ inbox = genOtp(999999)
    /\ now > OtpTtl

----------------------------------------------------------------------------
(* Product reviews.  PUT /create-new-review, behind isAuthenticated, writes
   a review into the product and marks the product's entry in the cart of
   the order; DELETE /delete-shop-product/:id, behind isSeller, removes a
   product.  Orders are written by the order controller; the order model
   populates cart._id on every find.  A request body field is Undef when it
   is missing and Num(n) when it carries n. *)

\* Product.findById(id)
findProduct(id) ==
    LET hits == { p \in products : p._id = id }
    IN  IF hits = {} THEN NoDoc ELSE CHOOSE p \in hits : TRUE

\* a stored reference
ObjectId(id) == [kind |-> "ObjectId", _id |-> id]

\* what populate puts in the place of a reference to a product: the
\* product's document (its selected fields), or null when there is none
populated(id) ==
    IF findProduct(id) = NoDoc THEN [kind |-> "null", _id |-> 0]
    ELSE [kind |-> "Document", _id |-> id]

\* orderSchema.pre(/^find/): this.populate("cart._id", "name price images")
populate(order) ==
    [order EXCEPT !.cart = [i \in DOMAIN order.cart |->
        [order.cart[i] EXCEPT !._id = populated(order.cart[i]._id._id)]]]

\* Order.findById(id), with the pre-find hook
findOrder(id) ==
    LET hits == { o \in orders : o._id = id }
    IN  IF hits = {} THEN NoDoc ELSE populate(CHOOSE o \in hits : TRUE)

\* item._id.toString(): ObjectId.prototype.toString gives the id's hex
\* string, the form a request carries an id in; Document.prototype.toString
\* gives the dump of the document's fields
idToString(v) ==
    IF v.kind = "ObjectId" THEN Num(v._id) ELSE <<"{ _id: ", v._id, " }">>

\* item._id.toString() === productId.toString()
sameProduct(item, productId) ==
    item._id.kind # "null" /\ idToString(item._id) = productId

\* order.cart.find(...): the index of the first entry of the product, 0 when
\* there is none
cartItem(cart, productId) ==
    LET hits == { i \in DOMAIN cart : sameProduct(cart[i], productId) }
    IN  IF hits = {} THEN 0 ELSE CHOOSE i \in hits : \A j \in hits : i <= j

\* order.cart.find(...) throws a TypeError: it calls toString on the null
\* _id of an entry it reaches
findThrows(cart, productId) ==
    \E i \in DOMAIN cart :
        /\ cart[i]._id.kind = "null"
        /\ \A j \in 1..(i - 1) : ~sameProduct(cart[j], productId)

\* order.cart.map(...) throws a TypeError: it reaches every entry
mapThrows(cart) == \E i \in DOMAIN cart : cart[i]._id.kind = "null"

\* the review the handler builds
newReview(user, rating, comment, t) ==
    [user |-> user._id, name |-> user.name, rating |-> rating[1], comment |-> comment,
     createdAt |-> t]

RECURSIVE ratingsSum(_)
\* product.reviews.reduce((acc, rev) => acc + rev.rating, 0)
ratingsSum(reviews) ==
    IF reviews = <<>> THEN 0
    ELSE ratingsSum(SubSeq(reviews, 1, Len(reviews) - 1)) + reviews[Len(reviews)].rating

\* sum / ratingsQuantity || 0, as the fraction <<numerator, denominator>>
ratingsAverage(reviews) ==
    IF Len(reviews) = 0 \/ ratingsSum(reviews) = 0 THEN <<0, 1>>
    ELSE <<ratingsSum(reviews), Len(reviews)>>

\* the product after the handler's changes: the review replaces the one of
\* the same user, or is pushed
withReview(product, rev) ==
    LET old == product.reviews
        reviews == IF \E i \in DOMAIN old : old[i].user = rev.user
                   THEN [i \in DOMAIN old |-> IF old[i].user = rev.user THEN rev ELSE old[i]]
                   ELSE Append(old, rev)
    IN  [product EXCEPT !.reviews = reviews,
                        !.ratingsQuantity = Len(reviews),
                        !.ratingsAverage = ratingsAverage(reviews)]

\* order.cart.map(...) and what order.save() stores of it: the entries of
\* the product get isReviewed, and references are stored as ids
markReviewed(cart, productId) ==
    [i \in DOMAIN cart |->
        [cart[i] EXCEPT !._id = ObjectId(cart[i]._id._id),
                        !.isReviewed = IF sameProduct(cart[i], productId) THEN TRUE ELSE @]]

\* given: the token and the body of the request that is answered
CreateNewReview(token, rating, comment, productId, orderId) ==
    LET given   == <<token, rating, <<comment>>, productId, orderId>>
        user    == reqUser(token, now)
        product == findProduct(productId[1])
        order   == findOrder(orderId[1])
        fail(message, status) == ErrorHandler("review", "user", given, message, status)
    IN
    /\ Quiet
    /\ mail' = NoMail
    /\ UNCHANGED <<site, now, db, nextId, reqs, issued, inbox>>
    /\ IF isAuthenticated(token, now) # 0
       THEN /\ resp' = fail(isAuthenticatedMessage(token, now), isAuthenticated(token, now))
            /\ UNCHANGED <<products, orders>>
       ELSE IF rating \in {Undef, Num(0)} \/ comment = "" \/ productId = Undef
               \/ orderId = Undef
       THEN /\ resp' = fail("Missing required fields for review", 400)
            /\ UNCHANGED <<products, orders>>
       ELSE IF product = NoDoc
       THEN /\ resp' = fail("Product not found", 404)
            /\ UNCHANGED <<products, orders>>
       ELSE IF order = NoDoc
       THEN /\ resp' = fail("Order not found", 404)
            /\ UNCHANGED <<products, orders>>
       ELSE IF findThrows(order.cart, productId)
       THEN /\ resp' = fail("TypeError", 400)
            /\ UNCHANGED <<products, orders>>
       ELSE IF cartItem(order.cart, productId) = 0
       THEN /\ resp' = fail("Product not found in order", 400)
            /\ UNCHANGED <<products, orders>>
       ELSE /\ products' = { IF p._id = product._id
                             THEN withReview(p, newReview(user, rating, comment, now))
                             ELSE p : p \in products }
            /\ IF mapThrows(order.cart)
               THEN /\ resp' = fail("TypeError", 400)
                    /\ UNCHANGED orders
               ELSE /\ orders' = { IF o._id = order._id
                                   THEN [o EXCEPT !.cart = markReviewed(order.cart, productId)]
                                   ELSE o : o \in orders }
                    /\ resp' = [Success("review", "user", 200) EXCEPT
                                   !.given = given]

\* Product.findById(req.params.id), the seller check, Product.deleteOne
DeleteShopProduct(cookie, authorization, id) ==
    LET product == findProduct(id)
        fail(message, status) == ErrorHandler("delete-product", "shop", Undef, message, status)
    IN
    /\ Quiet
    /\ mail' = NoMail
    /\ UNCHANGED <<site, now, db, nextId, reqs, issued, inbox, orders>>
    /\ IF isSeller(cookie, authorization, now) # 0
       THEN /\ resp' = fail(isSellerMessage(cookie, authorization, now),
                            isSeller(cookie, authorization, now))
            /\ UNCHANGED products
       ELSE IF product = NoDoc
       THEN /\ resp' = fail("Product not found", 404)
            /\ UNCHANGED products
       ELSE IF product.seller # ObjectId(reqSeller(cookie, authorization, now)._id)
       THEN /\ resp' = fail("Unauthorized: Product does not belong to seller", 403)
            /\ UNCHANGED products
       ELSE /\ products' = products \ {product}
            /\ resp' = Success("delete-product", "shop", 200)

----------------------------------------------------------------------------
(* Specification of the reviews: verified buyers who have logged in, a
   verified shop that has logged in and owns the catalogue, and one order
   per buyer whose cart holds every product of the catalogue.  Requests are
   handled one at a time. *)

Buyers == 1..MaxAccounts

Buyer(i) ==
    [Operator EXCEPT !._id = i, !.role = "user",
                     !.email = <<"a@x.io", "b@x.io", "c@x.io">>[i]]

\* its ObjectId is none of the buyers' nor the operator's
Vendor == [Operator EXCEPT !._id = MaxAccounts + 2, !.role = "Seller",
                           !.email = "shop@x.io"]

Catalogue == 1..MaxAccounts

\* a product as create-product stores it: no review yet
NewProduct(id) ==
    [_id |-> id, seller |-> ObjectId(Vendor._id), reviews |-> <<>>,
     ratingsQuantity |-> 0, ratingsAverage |-> <<0, 1>>]

\* the order of buyer i
NewOrder(i) ==
    [_id |-> i, user |-> ObjectId(i),
     cart |-> [p \in Catalogue |-> [_id |-> ObjectId(p), quantity |-> 1,
                                    isReviewed |-> FALSE]]]

Ratings == {Undef, Num(0), Num(1), Num(5)}
Ids     == {Undef} \cup { Num(id) : id \in 1..(MaxAccounts + 1) }

InitReview ==
    /\ site = "user"
    /\ now = 0
    /\ db = [v \in Variants |-> IF v = "user" THEN { Buyer(i) : i \in Buyers }
                                ELSE {Vendor}]
    /\ nextId = MaxAccounts + 3
    /\ reqs = [s \in {1} |-> Idle]
    /\ resp = NoResp
    /\ mail = NoMail
    /\ issued = { getJwtToken(Buyer(i), 0) : i \in Buyers } \cup {getJwtToken(Vendor, 0)}
    /\ inbox = Undef
    /\ products = { NewProduct(id) : id \in Catalogue }
    /\ orders = { NewOrder(i) : i \in Buyers }

NextReview ==
    \/ Flush
    \/ \E token \in Credentials, rating \in Ratings, comment \in {"", "fine"},
          productId \in Ids, orderId \in Ids :
          CreateNewReview(token, rating, comment, productId, orderId)
    \/ \E cookie \in Credentials, id \in Catalogue : DeleteShopProduct(cookie, NoHeader, id)

SpecReview == InitReview /\ [][NextReview]_vars

----------------------------------------------------------------------------
(* C22 *)

\* the stored order the answered request names
C22_Order == CHOOSE o \in orders : o._id = resp.given[5][1]

\* the answered create-new-review request is one the claim counts on to
\* succeed: an authenticated user, a rating and a comment, a stored product,
\* and a stored order whose cart holds that product
C22_Reviewable ==
    /\ resp.op = "review"
    /\ isAuthenticated(resp.given[1], now) = 0
    /\ resp.given[2] \notin {Undef, Num(0)}
    /\ resp.given[3] # <<"">>
    /\ resp.given[4] # Undef
    /\ resp.given[5] # Undef
    /\ findProduct(resp.given[4][1]) # NoDoc
    /\ \E o \in orders : o._id = resp.given[5][1]
    /\ \E i \in DOMAIN C22_Order.cart : C22_Order.cart[i]._id = ObjectId(resp.given[4][1])

\* the reviews of product p that user wrote
C22_ReviewsBy(p, user) == { i \in DOMAIN p.reviews : p.reviews[i].user = user }

====
